---- MODULE Spec2Model ----
(***************************************************************************)
(* A model of the iron-veil database proxy: the listener (accept loop,     *)
(* admission control), the masking engine, and the PostgreSQL and MySQL    *)
(* forwarding loops.  Each part has its own specification over the shared  *)
(* variables; the variables a specification does not use stay at their     *)
(* initial values.                                                         *)
(***************************************************************************)
EXTENDS Integers, Sequences, FiniteSets, TLC

(***************************************************************************)
(* Bounds of the model.                                                    *)
(***************************************************************************)
\* largest health threshold tried
MaxThreshold == 2
\* probe results reported in one run
MaxProbes == 4
\* frames the client writes on one connection
MaxClientFrames == 3
\* frames a Postgres upstream writes on one connection
MaxUpstreamFrames == 2
\* clock ticks per second of wall-clock time
TicksPerSec == 2
\* the clock stops at MaxTime ticks
MaxTime == 4
\* largest limits.connections_per_second tried
MaxRate == 2
\* largest limits.max_connections tried
MaxConns == 2
\* sockets the listener accepts in one run
MaxAccepts == 4
\* largest shutdown grace period tried, in ticks
MaxGrace == 1
\* cells in a row, fields in a RowDescription
MaxCols == 2
\* interceptor calls in a behaviour of the masking engine
MaxCalls == 3
\* of which calls of a row handler
MaxRowCalls == 1
\* management requests in a behaviour of the masking engine
MaxEdits == 1
\* frames in a Postgres byte stream handed to a codec on its own
MaxStreamFrames == 2
\* length-encoded integers: every value up to MaxLenenc is written and read
MaxLenenc == 300
\* record_masking calls in a behaviour of the tasks on the shared locks
MaxMasks == 3
\* add_log calls in a behaviour of the shared state (the ring holds 100)
MaxLogCalls == 103

(***************************************************************************)
(* Option<T>: None is the empty sequence, Some(v) the one-element one.     *)
(***************************************************************************)
None == << >>
Some(v) == << v >>
IsSome(o) == Len(o) = 1
IsNone(o) == Len(o) = 0
Unwrap(o) == o[1]


(***************************************************************************)
(* Text.  A string is a sequence of one-character strings.                 *)
(***************************************************************************)
Digit == { "0", "1", "2", "3", "4", "5", "6", "7", "8", "9" }
Lower == { "a", "b", "c", "d", "e", "f", "g", "h", "i", "j", "k", "l", "m",
           "n", "o", "p", "q", "r", "s", "t", "u", "v", "w", "x", "y", "z" }
Upper == { "A", "B", "C", "D", "E", "F", "G", "H", "I", "J", "K", "L", "M",
           "N", "O", "P", "Q", "R", "S", "T", "U", "V", "W", "X", "Y", "Z" }
\* \s of the regex crate and char::is_whitespace, restricted to ASCII
WhiteSpace == { " ", "\t", "\n", "\r", "\f" }

SubStr(s, a, b) == [ i \in 1..(b - a + 1) |-> s[a + i - 1] ]
StartsWith(s, c) == Len(s) >= 1 /\ s[1] = c
EndsWith(s, c) == Len(s) >= 1 /\ s[Len(s)] = c

\* str::trim
Trim(s) ==
    LET keep == { i \in 1..Len(s) : s[i] \notin WhiteSpace }
    IN  IF keep = {} THEN << >>
        ELSE SubStr(s, CHOOSE i \in keep : \A j \in keep : i <= j,
                       CHOOSE i \in keep : \A j \in keep : i >= j)

RECURSIVE Join(_, _)
\* [String]::join(sep)
Join(parts, sep) ==
    IF Len(parts) = 0 THEN << >>
    ELSE IF Len(parts) = 1 THEN parts[1]
    ELSE parts[1] \o sep \o Join(Tail(parts), sep)

(***************************************************************************)
(* The regular expressions of PiiScanner::new (scanner.rs:31-50).  A       *)
(* pattern is a sequence of items, each a character class repeated lo..hi  *)
(* times (hi = -1: unbounded), or an IPv4 octet; it is matched anchored at  *)
(* both ends by following the set of reachable positions.                  *)
(***************************************************************************)
Rep(cls, lo, hi) == [ kind |-> "rep", cls |-> cls, lo |-> lo, hi |-> hi ]
Octet == [ kind |-> "octet", cls |-> Digit, lo |-> 1, hi |-> 3 ]

\* (?:25[0-5]|2[0-4][0-9]|[01]?[0-9][0-9]?) matches s[a..q-1]
IsOctet(s, a, q) ==
    /\ q - a \in 1..3
    /\ \A j \in a..(q - 1) : s[j] \in Digit
    /\ q - a = 3 =>
          \/ s[a] \in { "0", "1" }
          \/ s[a] = "2" /\ s[a + 1] \in { "0", "1", "2", "3", "4" }
          \/ s[a] = "2" /\ s[a + 1] = "5" /\ s[a + 2] \in { "0", "1", "2", "3", "4", "5" }

\* The positions reachable from the positions P by one item.
StepItem(item, s, P) ==
    { q \in 1..(Len(s) + 1) :
        \E a \in P :
            /\ a <= q
            /\ IF item.kind = "octet" THEN IsOctet(s, a, q)
               ELSE /\ q - a >= item.lo
                    /\ item.hi = -1 \/ q - a <= item.hi
                    /\ \A j \in a..(q - 1) : s[j] \in item.cls }

RECURSIVE Reach(_, _, _, _)
Reach(pat, k, s, P) ==
    IF k > Len(pat) THEN P ELSE Reach(pat, k + 1, s, StepItem(pat[k], s, P))

\* Regex::is_match for an anchored pattern ^...$
IsMatch(pat, s) == (Len(s) + 1) \in Reach(pat, 1, s, {1})

\* scanner.rs:31-50  PiiScanner::new: the seven patterns, each as the set of
\* its alternatives
\* (?i)^[a-z0-9._%+-]+@[a-z0-9.-]+\.[a-z]{2,}$
email_regex ==
    { << Rep(Lower \cup Upper \cup Digit \cup { ".", "_", "%", "+", "-" }, 1, -1),
         Rep({ "@" }, 1, 1),
         Rep(Lower \cup Upper \cup Digit \cup { ".", "-" }, 1, -1),
         Rep({ "." }, 1, 1),
         Rep(Lower \cup Upper, 2, -1) >> }

\* ^(?:\d{4}[-\s]?){3}\d{4}$
cc_regex ==
    LET d4 == Rep(Digit, 4, 4)
        cc_sep == Rep({ "-" } \cup WhiteSpace, 0, 1)
    IN  { << d4, cc_sep, d4, cc_sep, d4, cc_sep, d4 >> }

\* ^\d{3}-\d{2}-\d{4}$
ssn_regex ==
    LET dash == Rep({ "-" }, 1, 1)
    IN  { << Rep(Digit, 3, 3), dash, Rep(Digit, 2, 2), dash, Rep(Digit, 4, 4) >> }

\* ^(?:\+\d{1,3}[-.\s])?\(?(\d{3})\)?[-.\s]?\d{3}[-.\s]?\d{4}$
phone_regex ==
    LET d3 == Rep(Digit, 3, 3)
        ph_sep == { "-", "." } \cup WhiteSpace
        ph_body == << Rep({ "(" }, 0, 1), d3, Rep({ ")" }, 0, 1),
                      Rep(ph_sep, 0, 1), d3, Rep(ph_sep, 0, 1), Rep(Digit, 4, 4) >>
        ph_prefix == << Rep({ "+" }, 1, 1), Rep(Digit, 1, 3), Rep(ph_sep, 1, 1) >>
    IN  { ph_body, ph_prefix \o ph_body }

\* ^(?:octet\.){3}octet$
ip_regex ==
    LET dot == Rep({ "." }, 1, 1)
    IN  { << Octet, dot, Octet, dot, Octet, dot, Octet >> }

\* ^(?:\d{4}[-/]\d{2}[-/]\d{2}|\d{2}[-/]\d{2}[-/]\d{4})$
dob_regex ==
    LET d2 == Rep(Digit, 2, 2)
        d4 == Rep(Digit, 4, 4)
        dob_sep == Rep({ "-", "/" }, 1, 1)
    IN  { << d4, dob_sep, d2, dob_sep, d2 >>, << d2, dob_sep, d2, dob_sep, d4 >> }

\* ^[A-Z]{1,2}\d{6,8}$
passport_regex == { << Rep(Upper, 1, 2), Rep(Digit, 6, 8) >> }

\* Regex::is_match
is_match(regex, text) == \E pat \in regex : IsMatch(pat, text)

scan_without_dob(text) ==
    IF is_match(email_regex, text) THEN Some("Email")
    ELSE IF is_match(cc_regex, text) THEN Some("CreditCard")
    ELSE IF is_match(ssn_regex, text) THEN Some("Ssn")
    ELSE IF is_match(ip_regex, text) THEN Some("IpAddress")
    ELSE IF is_match(phone_regex, text) THEN Some("Phone")
    ELSE IF is_match(passport_regex, text) THEN Some("Passport")
    ELSE None

\* scanner.rs:51-76  PiiScanner::scan: the kind of the first pattern that
\* matches, in the order email, credit card, SSN, IP, date of birth, phone,
\* passport.
scan(text) ==
    IF is_match(email_regex, text) THEN Some("Email")
    ELSE IF is_match(cc_regex, text) THEN Some("CreditCard")
    ELSE IF is_match(ssn_regex, text) THEN Some("Ssn")
    ELSE IF is_match(ip_regex, text) THEN Some("IpAddress")
    ELSE IF is_match(dob_regex, text) THEN Some("DateOfBirth")
    ELSE IF is_match(phone_regex, text) THEN Some("Phone")
    ELSE IF is_match(passport_regex, text) THEN Some("Passport")
    ELSE None

\* interceptor.rs:31-41  pii_type_to_strategy
pii_type_to_strategy(pii_type) ==
    CASE pii_type = "Email" -> "email"
      [] pii_type = "CreditCard" -> "credit_card"
      [] pii_type = "Ssn" -> "ssn"
      [] pii_type = "Phone" -> "phone"
      [] pii_type = "IpAddress" -> "ip"
      [] pii_type = "DateOfBirth" -> "dob"
      [] pii_type = "Passport" -> "passport"

(***************************************************************************)
(* Cell contents.  The bytes of a cell are text (a sequence of characters), *)
(* the serialization of a JSON document whose root is an object or an      *)
(* array (canon: the bytes are exactly what serde_json::to_string writes   *)
(* for the document), or bytes that are not UTF-8.  A JSON node has a type *)
(* t, the characters s of a scalar, and the keys and children v of a       *)
(* container.  Every JSON document with an object or array root is a       *)
(* JsonBytes cell; text cells hold no JSON document other than the scalars *)
(* from_str recognises below.                                              *)
(***************************************************************************)
Node(t, s, keys, v) == [ t |-> t, s |-> s, keys |-> keys, v |-> v ]
TextBytes(s) == [ k |-> "text", s |-> s, doc |-> Node("none", << >>, << >>, << >>), canon |-> TRUE ]
JsonBytes(doc, canon) == [ k |-> "json", s |-> << >>, doc |-> doc, canon |-> canon ]
BinBytes(s) == [ k |-> "bin", s |-> s, doc |-> Node("none", << >>, << >>, << >>), canon |-> TRUE ]

\* std::str::from_utf8(val).is_ok()
IsUtf8(val) == val.k # "bin"

(***************************************************************************)
(* DefaultHasher.  The hasher is modelled as collision-free: the seed is   *)
(* the printed form of the byte stream written to it.  Hash for [u8]       *)
(* (BytesMut, Vec<u8>) writes the length and then the bytes; Hash for str  *)
(* writes the bytes and then the byte 0xff.                                *)
(***************************************************************************)
finish(stream) == ToString(stream)
HashBytes(val) ==
    finish(IF val.k = "json" THEN << "len", ToString(<< val.doc, val.canon >>) >>
           ELSE << "len:" \o ToString(Len(val.s)) >> \o val.s)
HashStr(s) == finish(s \o << "0xff" >>)

\* interceptor.rs:15-28  generate_fake_data.  The output of a faker driven
\* by ChaCha8Rng::seed_from_u64(seed) is one opaque character determined by
\* the faker and the seed.
generate_fake_data(strategy, seed) ==
    CASE strategy = "email" -> << "SafeEmail(" \o seed \o ")" >>
      [] strategy = "phone" -> << "PhoneNumber(" \o seed \o ")" >>
      [] strategy = "address" -> << "CityName(" \o seed \o ")" >>
      [] strategy = "credit_card" -> << "CreditCardNumber(" \o seed \o ")" >>
      [] strategy = "ssn" ->
            << "X", "X", "X", "-", "X", "X", "-", "{:04}(" \o seed \o " % 10000)" >>
      [] strategy = "ip" -> << "0", ".", "0", ".", "0", ".", "0" >>
      [] strategy = "dob" -> << "1", "9", "0", "0", "-", "0", "1", "-", "0", "1" >>
      [] strategy = "passport" -> << "X", "X", "X", "X", "X", "X", "X", "X" >>
      [] OTHER -> << "M", "A", "S", "K", "E", "D" >>

mask_json_shallow(val) ==
    LET leaf(v) == IF v.t = "str" /\ IsSome(scan(v.s))
                   THEN [ v EXCEPT !.s = generate_fake_data(
                              pii_type_to_strategy(Unwrap(scan(v.s))), HashStr(v.s)) ]
                   ELSE v
    IN  IF val.t \in { "arr", "obj" }
        THEN [ val EXCEPT !.v = [ i \in 1..Len(val.v) |-> leaf(val.v[i]) ] ]
        ELSE leaf(val)

RECURSIVE mask_json_recursively(_)
\* interceptor.rs:43-69
mask_json_recursively(val) ==
    CASE val.t = "str" ->
            LET pii_type == scan(val.s)
            IN  IF IsSome(pii_type)
                THEN [ val EXCEPT !.s = generate_fake_data(
                           pii_type_to_strategy(Unwrap(pii_type)), HashStr(val.s)) ]
                ELSE val
      [] val.t \in { "arr", "obj" } ->
            [ val EXCEPT !.v = [ i \in 1..Len(val.v) |-> mask_json_recursively(val.v[i]) ] ]
      [] OTHER -> val

\* serde_json::from_str on the text of a cell: Some(document) or None (Err).
\* JSON whitespace around the document is skipped.
from_str(val) ==
    IF val.k = "json" THEN Some(val.doc)
    ELSE IF val.k # "text" THEN None
    ELSE LET keep == { i \in 1..Len(val.s) : val.s[i] \notin { " ", "\t", "\n", "\r" } }
             lo == CHOOSE i \in keep : \A j \in keep : i <= j
             hi == CHOOSE i \in keep : \A j \in keep : i >= j
             t == IF keep = {} THEN << >> ELSE SubStr(val.s, lo, hi)
         IN  CASE t \in { << "t", "r", "u", "e" >>, << "f", "a", "l", "s", "e" >> } ->
                    Some(Node("bool", t, << >>, << >>))
               [] t = << "n", "u", "l", "l" >> -> Some(Node("null", t, << >>, << >>))
               [] \/ t = << "0" >>
                  \/ IsMatch(<< Rep({ "-" }, 0, 1), Rep(Digit \ { "0" }, 1, 1),
                                Rep(Digit, 0, 14) >>, t) ->
                    Some(Node("num", t, << >>, << >>))
               [] /\ Len(t) >= 2
                  /\ StartsWith(t, "\"")
                  /\ EndsWith(t, "\"")
                  /\ \A i \in 2..(Len(t) - 1) : t[i] \notin { "\"", "\\", "\t", "\n", "\r", "\f" } ->
                    Some(Node("str", SubStr(t, 2, Len(t) - 1), << >>, << >>))
               [] OTHER -> None

\* serde_json::to_string: the canonical bytes of a document
to_string(doc) ==
    CASE doc.t \in { "arr", "obj" } -> JsonBytes(doc, TRUE)
      [] doc.t = "str" -> TextBytes(<< "\"" >> \o doc.s \o << "\"" >>)
      [] OTHER -> TextBytes(doc.s)

RECURSIVE Replace(_, _, _)
\* str::replace: the non-overlapping occurrences of from, left to right
Replace(s, from, to) ==
    IF Len(s) < Len(from) THEN s
    ELSE IF SubStr(s, 1, Len(from)) = from
         THEN to \o Replace(SubStr(s, Len(from) + 1, Len(s)), from, to)
         ELSE << s[1] >> \o Replace(Tail(s), from, to)

RECURSIVE SplitElements(_, _, _, _, _, _)
\* interceptor.rs:78-100  split by comma, respecting quotes
SplitElements(content, i, elements, current, in_quotes, escaped) ==
    IF i > Len(content) THEN Append(elements, current)
    ELSE LET c == content[i]
         IN  IF escaped
             THEN SplitElements(content, i + 1, elements, Append(current, c), in_quotes, FALSE)
             ELSE IF c = "\\"
             THEN SplitElements(content, i + 1, elements, Append(current, c), in_quotes, TRUE)
             ELSE IF c = "\""
             THEN SplitElements(content, i + 1, elements, Append(current, c), ~in_quotes, FALSE)
             ELSE IF c = "," /\ ~in_quotes
             THEN SplitElements(content, i + 1, Append(elements, current), << >>, in_quotes, FALSE)
             ELSE SplitElements(content, i + 1, elements, Append(current, c), in_quotes, FALSE)

\* interceptor.rs:105-132  one element: Some(quoted fake) when it is PII
MaskArrayElement(elem) ==
    LET trimmed == Trim(elem)
        val == IF StartsWith(trimmed, "\"") /\ EndsWith(trimmed, "\"") /\ Len(trimmed) >= 2
               THEN SubStr(trimmed, 2, Len(trimmed) - 1)
               ELSE trimmed
        clean_val == Replace(Replace(val, << "\\", "\"" >>, << "\"" >>),
                             << "\\", "\\" >>, << "\\" >>)
        pii_type == scan(clean_val)
    IN  IF IsSome(pii_type)
        THEN Some(<< "\"" >>
                  \o generate_fake_data(pii_type_to_strategy(Unwrap(pii_type)),
                                        HashStr(clean_val))
                  \o << "\"" >>)
        ELSE None

\* interceptor.rs:71-139
mask_postgres_array(raw) ==
    IF ~StartsWith(raw, "{") \/ ~EndsWith(raw, "}") THEN None
    ELSE LET elements == SplitElements(SubStr(raw, 2, Len(raw) - 1), 1, << >>, << >>,
                                       FALSE, FALSE)
             masked == [ i \in 1..Len(elements) |-> MaskArrayElement(elements[i]) ]
             new_elements == [ i \in 1..Len(elements) |->
                                 IF IsSome(masked[i]) THEN Unwrap(masked[i]) ELSE elements[i] ]
         IN  IF \E i \in 1..Len(elements) : IsSome(masked[i])
             THEN Some(<< "{" >> \o Join(new_elements, << "," >>) \o << "}" >>)
             ELSE None

(***************************************************************************)
(* The treatment of one present cell.  The result is the new bytes and,    *)
(* when the cell was rewritten, the counter that record_masking bumps and  *)
(* the strategy written to the change log.                                 *)
(***************************************************************************)
Kept(val) == [ val |-> val, changed |-> FALSE, counter |-> "", strategy |-> "" ]
Masked(val, counter, strategy) ==
    [ val |-> val, changed |-> TRUE, counter |-> counter, strategy |-> strategy ]

\* interceptor.rs:225-229, 446-450  the first entry of the column map for i
explicit_strategy(target_cols, i) ==
    LET hits == { n \in 1..Len(target_cols) : target_cols[n][1] = i }
    IN  IF hits = {} THEN None
        ELSE Some(target_cols[CHOOSE n \in hits : \A m \in hits : n <= m][2])

\* interceptor.rs:236-252, 268-283, 457-474  a cell that parsed as JSON
MaskJsonCell(val, label) ==
    LET new_json == to_string(mask_json_recursively(Unwrap(from_str(val))))
    IN  IF new_json # val THEN Masked(new_json, "json", label) ELSE Kept(val)

ApplyHeuristic(val, strat) ==
    IF val.k = "text" /\ IsSome(scan(val.s))
    THEN Masked(TextBytes(generate_fake_data(pii_type_to_strategy(Unwrap(scan(val.s))),
                                             HashBytes(val))),
                pii_type_to_strategy(Unwrap(scan(val.s))),
                pii_type_to_strategy(Unwrap(scan(val.s))))
    ELSE Kept(val)

\* interceptor.rs:316-337, 488-512  replace the cell by the strategy's output
ApplyStrategy(val, strat) ==
    Masked(TextBytes(generate_fake_data(strat, HashBytes(val))), strat, strat)

\* interceptor.rs:262-263  the trimmed text looks like a JSON document
LooksLikeJson(val) ==
    \/ val.k = "json"
    \/ /\ val.k = "text"
       /\ \/ StartsWith(Trim(val.s), "{") /\ EndsWith(Trim(val.s), "}")
          \/ StartsWith(Trim(val.s), "[") /\ EndsWith(Trim(val.s), "]")

\* interceptor.rs:216-338  the body of the loop of on_data_row for a present cell
MaskDataCell(val, explicit) ==
    IF explicit = Some("json") /\ IsUtf8(val) /\ IsSome(from_str(val))
    THEN MaskJsonCell(val, "json")
    ELSE IF IsSome(explicit) THEN ApplyStrategy(val, Unwrap(explicit))
    ELSE IF ~IsUtf8(val) THEN Kept(val)
    ELSE IF LooksLikeJson(val) /\ IsSome(from_str(val))
    THEN MaskJsonCell(val, "json (heuristic)")
    ELSE IF /\ LooksLikeJson(val)
            /\ StartsWith(Trim(val.s), "{")
            /\ EndsWith(Trim(val.s), "}")
            /\ IsSome(mask_postgres_array(val.s))
    THEN Masked(TextBytes(Unwrap(mask_postgres_array(val.s))), "other", "array (heuristic)")
    ELSE IF IsSome(scan(val.s))
    THEN ApplyStrategy(val, pii_type_to_strategy(Unwrap(scan(val.s))))
    ELSE Kept(val)

\* interceptor.rs:437-513  the body of the loop of on_result_row for a present cell
MaskResultCell(val, explicit) ==
    IF explicit = Some("json") /\ IsUtf8(val) /\ IsSome(from_str(val))
    THEN MaskJsonCell(val, "json")
    ELSE IF IsSome(explicit) THEN ApplyStrategy(val, Unwrap(explicit))
    ELSE IF IsUtf8(val) /\ IsSome(scan(val.s))
    THEN ApplyStrategy(val, pii_type_to_strategy(Unwrap(scan(val.s))))
    ELSE Kept(val)

(***************************************************************************)
(* The column map and the row handlers of the two interceptors.            *)
(***************************************************************************)
\* A MaskingRule (config.rs:57-62)
Rule(table, column, strategy) == [ table |-> table, column |-> column, strategy |-> strategy ]

LastMatch(rules, hit) ==
    LET hits == { n \in 1..Len(rules) : hit[n] }
    IN  IF hits = {} THEN None
        ELSE Some(rules[CHOOSE n \in hits : \A m \in hits : n >= m].strategy)

\* interceptor.rs:182-199, 411-421  "for rule in &config.rules { if ... { push; break } }"
FirstMatch(rules, hit) ==
    LET hits == { n \in 1..Len(rules) : hit[n] }
    IN  IF hits = {} THEN None
        ELSE Some(rules[CHOOSE n \in hits : \A m \in hits : n <= m].strategy)

\* interceptor.rs:177-201  the column map computed from a RowDescription;
\* a field name that is not UTF-8 compares as the empty string
on_row_description(fields, rules) ==
    LET field_name(i) == IF fields[i] = "<non-utf8>" THEN "" ELSE fields[i]
        found == [ i \in 1..Len(fields) |->
                     << i - 1, FirstMatch(rules, [ n \in 1..Len(rules) |->
                                                     rules[n].column = field_name(i) ]) >> ]
        hit == SelectSeq(found, LAMBDA e : IsSome(e[2]))
    IN  [ n \in 1..Len(hit) |-> << hit[n][1], Unwrap(hit[n][2]) >> ]

\* interceptor.rs:405-422  the interceptor's column_names and target_cols
\* after a ColumnDefinition
on_column_definition(col, names, target_cols, rules) ==
    LET found == FirstMatch(rules, [ n \in 1..Len(rules) |->
                     /\ IsNone(rules[n].table) \/ Unwrap(rules[n].table) = col.table
                     /\ rules[n].column = col.name ])
    IN  [ column_names |-> Append(names, col.name),
          target_cols |-> IF IsSome(found)
                          THEN Append(target_cols, << Len(names), Unwrap(found) >>)
                          ELSE target_cols ]


(***************************************************************************)
(* The inputs of the model: cells, rows, column descriptors and rules.     *)
(***************************************************************************)
\* text of the cells
SsnText == << "1", "2", "3", "-", "4", "5", "-", "6", "7", "8", "9" >>
ArrayText == << "{" >> \o SsnText \o << ",", "x", "}" >>

\* the cells of the rows: text, JSON documents, a Postgres array literal,
\* bytes that are not UTF-8
CellValues ==
    { TextBytes(SsnText), TextBytes(<< "b", "o", "b" >>), TextBytes(ArrayText),
      JsonBytes(Node("arr", << >>, << >>, << Node("str", SsnText, << >>, << >>) >>), TRUE),
      JsonBytes(Node("obj", << >>, << "n" >>, << Node("num", << "7" >>, << >>, << >>) >>), FALSE),
      BinBytes(<< "0xfe" >>) }

Cells == { None } \cup { Some(c) : c \in CellValues }
Rows == UNION { [ 1..n -> Cells ] : n \in 0..MaxCols }

ColumnNames == { "email", "doc" }
TableNames == { "users", "orders" }
RuleValues ==
    { Rule(Some("users"), "email", "hash"), Rule(None, "email", "email"),
      Rule(None, "doc", "json") }

\* texts handed to the scanner: one or more of every kind, and near misses
ScanTexts ==
    { << "a", "@", "b", ".", "c", "o" >>,
      << "A", ".", "b", "+", "1", "@", "x", "-", "y", ".", "I", "O" >>,
      << "a", "@", "b", ".", "c" >>,
      << "a", "@", "b" >>,
      << "1", "1", "1", "1", "2", "2", "2", "2", "3", "3", "3", "3", "4", "4", "4", "4" >>,
      << "1", "1", "1", "1", "-", "2", "2", "2", "2", " ", "3", "3", "3", "3", "4", "4", "4", "4" >>,
      << "1", "1", "1", "1", "2", "2", "2", "2", "3", "3", "3", "3", "4", "4", "4" >>,
      SsnText,
      << "1", "2", "3", "-", "4", "5", "-", "6", "7", "8" >>,
      << "1", "2", "3", "4", "5", "6", "7", "8", "9" >>,
      << "1", ".", "2", ".", "3", ".", "4" >>,
      << "2", "5", "5", ".", "2", "4", "9", ".", "1", "9", "9", ".", "0" >>,
      << "2", "5", "6", ".", "1", ".", "1", ".", "1" >>,
      << "1", ".", "2", ".", "3" >>,
      << "1", "9", "9", "0", "-", "0", "1", "-", "1", "5" >>,
      << "0", "1", "/", "1", "5", "/", "1", "9", "9", "0" >>,
      << "1", "5", "-", "0", "1", "-", "1", "9", "9", "0" >>,
      << "1", "9", "9", "0", "-", "1", "-", "1", "5" >>,
      << "1", "9", "9", "0", ".", "0", "1", ".", "1", "5" >>,
      << "5", "5", "5", "-", "1", "2", "3", "-", "4", "5", "6", "7" >>,
      << "5", "5", "5", ".", "1", "2", "3", ".", "4", "5", "6", "7" >>,
      << "(", "5", "5", "5", ")", " ", "1", "2", "3", "-", "4", "5", "6", "7" >>,
      << "+", "1", "-", "5", "5", "5", "-", "1", "2", "3", "-", "4", "5", "6", "7" >>,
      << "5", "5", "5", "1", "2", "3", "4", "5", "6", "7" >>,
      << "5", "5", "5", "-", "1", "2", "3", "4" >>,
      << "A", "B", "1", "2", "3", "4", "5", "6", "7" >>,
      << "X", "1", "2", "3", "4", "5", "6" >>,
      << "a", "b", "1", "2", "3", "4", "5", "6", "7" >>,
      << "A", "B", "C", "1", "2", "3", "4", "5", "6" >>,
      << "b", "o", "b" >>,
      << >> }

\* JSON documents handed to the row handlers: classified and unclassified
\* strings, a number, a boolean and a null, at the root and two levels down
ScanDocs ==
    LET str(s) == Node("str", s, << >>, << >>)
        bob == str(<< "b", "o", "b" >>)
        num == Node("num", << "7" >>, << >>, << >>)
        other == << Node("bool", << "t", "r", "u", "e" >>, << >>, << >>),
                    Node("null", << "n", "u", "l", "l" >>, << >>, << >>) >>
        user == Node("obj", << >>, << "email", "name", "age" >>,
                     << str(<< "a", "@", "b", ".", "c", "o" >>), bob, num >>)
        tags == Node("arr", << >>, << >>, << str(SsnText), bob, num >> \o other)
    IN  { Node("obj", << >>, << "user", "tags", "id" >>, << user, tags, str(SsnText) >>),
          Node("arr", << >>, << >>, << user, Node("arr", << >>, << >>, << tags >>) >>),
          Node("obj", << >>, << "name", "tags" >>,
               << bob, Node("arr", << >>, << >>, << bob, num >> \o other) >>),
          Node("arr", << >>, << >>, << >>) }

ScanCells ==
    { TextBytes(t) : t \in ScanTexts } \cup { JsonBytes(doc, TRUE) : doc \in ScanDocs }
ScanRows == UNION { [ 1..n -> { None } \cup { Some(c) : c \in ScanCells } ] : n \in 0..MaxCols }

\* MaskDataCell and MaskResultCell, evaluated once for every cell of the model
\* and every strategy a column map can hold
MaskDataCellMemo ==
    [ val \in CellValues \cup ScanCells, explicit \in { None } \cup { Some(r.strategy) : r \in RuleValues } |->
        MaskDataCell(val, explicit) ]
MaskResultCellMemo ==
    [ val \in CellValues \cup ScanCells, explicit \in { None } \cup { Some(r.strategy) : r \in RuleValues } |->
        MaskResultCell(val, explicit) ]

DropMaskedCell(i, val_opt, r) ==
    [ column_idx |-> i, value |-> None, changed |-> r.changed,
      counter |-> r.counter, strategy |-> r.strategy ]

\* what the loop body leaves in cell i: Some(bytes) written in place
CellResult(i, val_opt, r) ==
    [ column_idx |-> i, value |-> Some(r.val), changed |-> r.changed,
      counter |-> r.counter, strategy |-> r.strategy ]

\* a cell the handler does not touch: a null, or any cell when masking is off
Untouched(i, val_opt) ==
    [ column_idx |-> i, value |-> val_opt, changed |-> FALSE,
      counter |-> "", strategy |-> "" ]

MaskingAlwaysOn(masking_enabled) == TRUE

\* interceptor.rs:206-211, 427-432  the check of config.masking_enabled
MaskingOn(masking_enabled) == masking_enabled

\* interceptor.rs:204-357  per cell: the value returned and the change made
on_data_row(msg, target_cols, masking_enabled) ==
    [ i \in 1..Len(msg) |->
        IF MaskingOn(masking_enabled) /\ IsSome(msg[i])
        THEN CellResult(i - 1, msg[i],
                        MaskDataCellMemo[Unwrap(msg[i]), explicit_strategy(target_cols, i - 1)])
        ELSE Untouched(i - 1, msg[i]) ]

\* interceptor.rs:425-531
on_result_row(row, target_cols, masking_enabled) ==
    [ i \in 1..Len(row) |->
        IF MaskingOn(masking_enabled) /\ IsSome(row[i])
        THEN CellResult(i - 1, row[i],
                        MaskResultCellMemo[Unwrap(row[i]), explicit_strategy(target_cols, i - 1)])
        ELSE Untouched(i - 1, row[i]) ]

\* the row returned by a handler
Values(results) == [ i \in 1..Len(results) |-> results[i].value ]
\* changes_log of a handler
Changes(results) == SelectSeq(results, LAMBDA r : r.changed)

(***************************************************************************)
(* AppState: masking counters and the log ring (state.rs).                 *)
(***************************************************************************)
StatNames == { "email", "phone", "address", "credit_card", "ssn", "ip", "dob",
               "passport", "hash", "json", "other" }

\* state.rs:70-87, 343-347  MaskingStats::increment
record_masking(st, strategy) ==
    [ st EXCEPT ![IF strategy \in StatNames \ { "other" } THEN strategy ELSE "other"] = @ + 1 ]

RECURSIVE RecordAll(_, _)
\* the record_masking calls of one row, in cell order
RecordAll(st, changes) ==
    IF Len(changes) = 0 THEN st
    ELSE RecordAll(record_masking(st, changes[1].counter), Tail(changes))

add_log_keep_all(lg, entry) == << entry >> \o lg

\* state.rs:265-271
add_log(lg, entry) ==
    << entry >> \o (IF Len(lg) >= 100 THEN SubSeq(lg, 1, Len(lg) - 1) ELSE lg)

\* interceptor.rs:341-354, 516-528  the entry logged when a row changed
MaskLogEntry(event_type, changes) ==
    [ event_type |-> event_type, content |-> Len(changes),
      details |-> [ n \in 1..Len(changes) |->
                      << changes[n].column_idx, changes[n].strategy >> ] ]

\* the log ring after a row handler returned results
LogsAfter(lg, event_type, results) ==
    IF Len(Changes(results)) > 0
    THEN add_log(lg, MaskLogEntry(event_type, Changes(results)))
    ELSE lg

(***************************************************************************)
(* PostgresCodec (protocol/postgres.rs) on bytes.  A byte is a number in   *)
(* 0..255; a buffer is a sequence of bytes.  A message is a record of its  *)
(* type, a number (protocol version or type byte), its byte strings and    *)
(* its numbers.  A step of a parser yields st = "ok" with a value v and    *)
(* the rest of the buffer, "err" (the function returns Err) or "panic"     *)
(* (a Buf accessor of the bytes crate ran past the end of the buffer).     *)
(***************************************************************************)
Take(s, n) == SubSeq(s, 1, n)
Drop(s, n) == SubSeq(s, n + 1, Len(s))

\* Buf::get_u16
U16(b) == b[1] * 256 + b[2]
\* u32::from_be_bytes / Buf::get_u32; a value of 2^30 or more is held as
\* 2^30 (such values are only compared with buffer lengths here)
U32(b) ==
    IF b[1] >= 64 THEN 1073741824
    ELSE ((b[1] * 256 + b[2]) * 256 + b[3]) * 256 + b[4]
\* Buf::get_i32
I32(b) ==
    IF b[1] >= 128 THEN (((b[1] - 256) * 256 + b[2]) * 256 + b[3]) * 256 + b[4]
    ELSE U32(b)
PutU16Swapped(n) == << n % 256, (n \div 256) % 256 >>
\* BufMut::put_u16
PutU16(n) == << (n \div 256) % 256, n % 256 >>
\* BufMut::put_u32 / put_i32
PutU32(n) ==
    LET m == IF n < 0 THEN n + 2147483647 + 1 ELSE n
    IN  << (m \div 16777216) + (IF n < 0 THEN 128 ELSE 0),
           (m \div 65536) % 256, (m \div 256) % 256, m % 256 >>

Parsed(st, v, rest) == [ st |-> st, v |-> v, rest |-> rest ]

NeedMoreClears(src) == Parsed("none", << >>, << >>)
\* postgres.rs:82-84, 94-97, 146-148  return Ok(None): more bytes are needed,
\* src keeps what it holds (as in mysql.rs:193-195, 202-205)
NeedMore(src) == Parsed("none", << >>, src)
PgMessage(type, num, parts, nums) == [ type |-> type, num |-> num, parts |-> parts, nums |-> nums ]

\* postgres.rs:331-337  read_cstring_bytes
read_cstring_bytes(buf) ==
    LET zeros == { i \in 1..Len(buf) : buf[i] = 0 }
        pos == CHOOSE i \in zeros : \A j \in zeros : i <= j
    IN  IF zeros = {} THEN Parsed("err", << >>, buf)
        ELSE Parsed("ok", Take(buf, pos - 1), Drop(buf, pos))

RECURSIVE ReadParameters(_, _)
\* postgres.rs:104-112  the parameters of a StartupMessage
ReadParameters(data, parameters) ==
    IF Len(data) = 0 THEN Parsed("ok", parameters, data)
    ELSE LET key == read_cstring_bytes(data)
             value == read_cstring_bytes(key.rest)
         IN  IF key.st # "ok" THEN Parsed("err", << >>, data)
             ELSE IF Len(key.v) = 0 THEN Parsed("ok", parameters, key.rest)
             ELSE IF value.st # "ok" THEN Parsed("err", << >>, data)
             ELSE ReadParameters(value.rest, parameters \o << key.v, value.v >>)

RECURSIVE ReadFields(_, _, _, _)
\* postgres.rs:156-176  the fields of a RowDescription: name and six numbers
ReadFields(data, n, names, nums) ==
    IF n = 0 THEN Parsed("ok", << names, nums >>, data)
    ELSE LET name == read_cstring_bytes(data)
             d == name.rest
         IN  IF name.st # "ok" THEN Parsed("err", << >>, data)
             ELSE IF Len(d) < 18 THEN Parsed("panic", << >>, data)
             ELSE ReadFields(Drop(d, 18), n - 1, Append(names, name.v),
                             nums \o << U32(SubSeq(d, 1, 4)), U16(SubSeq(d, 5, 6)),
                                        U32(SubSeq(d, 7, 10)), U16(SubSeq(d, 11, 12)),
                                        I32(SubSeq(d, 13, 16)), U16(SubSeq(d, 17, 18)) >>)

RECURSIVE ReadValues(_, _, _)
\* postgres.rs:179-191  the values of a DataRow
ReadValues(data, n, values) ==
    IF n = 0 THEN Parsed("ok", values, data)
    ELSE IF Len(data) < 4 THEN Parsed("panic", << >>, data)
    ELSE LET len == I32(Take(data, 4))
             rest == Drop(data, 4)
         IN  IF len = -1 THEN ReadValues(rest, n - 1, Append(values, None))
             ELSE IF len < 0 \/ len > Len(rest) THEN Parsed("panic", << >>, data)
             ELSE ReadValues(Drop(rest, len), n - 1, Append(values, Some(Take(rest, len))))

RECURSIVE ReadParamTypes(_, _, _)
\* postgres.rs:201-204  the parameter types of a Parse
ReadParamTypes(data, n, types) ==
    IF n = 0 THEN Parsed("ok", types, data)
    ELSE IF Len(data) < 4 THEN Parsed("panic", << >>, data)
    ELSE ReadParamTypes(Drop(data, 4), n - 1, Append(types, U32(Take(data, 4))))

\* postgres.rs:85-118  decode of the first messages of a client
DecodeStartup(data) ==
    IF Len(data) < 8 THEN Parsed("panic", << >>, << >>)
    ELSE LET protocol_version == U32(SubSeq(data, 5, 8))
             parameters == ReadParameters(Drop(data, 8), << >>)
         IN  IF protocol_version = 80877103
             THEN Parsed("ok", PgMessage("SSLRequest", 0, << >>, << >>), << >>)
             ELSE IF parameters.st # "ok" THEN Parsed(parameters.st, << >>, << >>)
             ELSE Parsed("ok", PgMessage("Startup", protocol_version, parameters.v, << >>), << >>)

\* postgres.rs:145-218  decode of a regular frame: type byte, length, payload
DecodeRegular(frame) ==
    IF Len(frame) < 5 THEN Parsed("panic", << >>, << >>)
    ELSE LET message_type == frame[1]
             data == Drop(frame, 5)
         IN  CASE message_type = 84 ->    \* 'T'
                    IF Len(data) < 2 THEN Parsed("panic", << >>, << >>)
                    ELSE LET fields == ReadFields(Drop(data, 2), U16(data), << >>, << >>)
                         IN  IF fields.st # "ok" THEN Parsed(fields.st, << >>, << >>)
                             ELSE Parsed("ok", PgMessage("RowDescription", 0, fields.v[1],
                                                         fields.v[2]), << >>)
               [] message_type = 68 ->    \* 'D'
                    IF Len(data) < 2 THEN Parsed("panic", << >>, << >>)
                    ELSE LET values == ReadValues(Drop(data, 2), U16(data), << >>)
                         IN  IF values.st # "ok" THEN Parsed(values.st, << >>, << >>)
                             ELSE Parsed("ok", PgMessage("DataRow", 0, values.v, << >>), << >>)
               [] message_type = 81 ->    \* 'Q'
                    LET query == read_cstring_bytes(data)
                    IN  IF query.st # "ok" THEN Parsed("err", << >>, << >>)
                        ELSE Parsed("ok", PgMessage("Query", 0, << query.v >>, << >>), << >>)
               [] message_type = 80 ->    \* 'P'
                    LET statement == read_cstring_bytes(data)
                        query == read_cstring_bytes(statement.rest)
                        types == ReadParamTypes(Drop(query.rest, 2), U16(query.rest), << >>)
                    IN  IF statement.st # "ok" \/ query.st # "ok" THEN Parsed("err", << >>, << >>)
                        ELSE IF Len(query.rest) < 2 THEN Parsed("panic", << >>, << >>)
                        ELSE IF types.st # "ok" THEN Parsed(types.st, << >>, << >>)
                        ELSE Parsed("ok", PgMessage("Parse", 0, << statement.v, query.v >>,
                                                    types.v), << >>)
               [] OTHER ->
                    Parsed("ok", PgMessage("Regular", message_type, << data >>, << >>), << >>)

\* postgres.rs:81-221  PostgresCodec::decode on the read buffer src: "none"
\* stands for Ok(None), more bytes are needed; rest is what stays in src
PostgresCodec_decode(src, is_startup) ==
    IF Len(src) < 4 THEN NeedMore(src)
    ELSE IF is_startup
    THEN LET length == U32(Take(src, 4))
         IN  IF Len(src) < length THEN NeedMore(src)
             ELSE [ DecodeStartup(Take(src, length)) EXCEPT !.rest = Drop(src, length) ]
    ELSE IF Len(src) < 5 THEN NeedMore(src)
    ELSE LET frame_len == 1 + U32(SubSeq(src, 2, 5))
         IN  IF Len(src) < frame_len THEN NeedMore(src)
             ELSE [ DecodeRegular(Take(src, frame_len)) EXCEPT !.rest = Drop(src, frame_len) ]

\* postgres.rs:226-327  PostgresCodec::encode: the bytes appended to dst
PostgresCodec_encode(item) ==
    CASE item.type = "Startup" ->
            LET params == Join([ i \in 1..Len(item.parts) |-> item.parts[i] \o << 0 >> ], << >>)
            IN  PutU32(4 + 4 + Len(params) + 1) \o PutU32(item.num) \o params \o << 0 >>
      [] item.type = "SSLRequest" -> PutU32(8) \o PutU32(80877103)
      [] item.type = "RowDescription" ->
            LET fields == Join([ i \in 1..Len(item.parts) |->
                                   item.parts[i] \o << 0 >>
                                   \o PutU32(item.nums[6 * i - 5]) \o PutU16(item.nums[6 * i - 4])
                                   \o PutU32(item.nums[6 * i - 3]) \o PutU16(item.nums[6 * i - 2])
                                   \o PutU32(item.nums[6 * i - 1]) \o PutU16(item.nums[6 * i]) ],
                               << >>)
            IN  << 84 >> \o PutU32(4 + 2 + Len(fields)) \o PutU16(Len(item.parts)) \o fields
      [] item.type = "DataRow" ->
            LET values == Join([ i \in 1..Len(item.parts) |->
                                   IF IsSome(item.parts[i])
                                   THEN PutU32(Len(Unwrap(item.parts[i]))) \o Unwrap(item.parts[i])
                                   ELSE PutU32(-1) ], << >>)
            IN  << 68 >> \o PutU32(4 + 2 + Len(values)) \o PutU16(Len(item.parts)) \o values
      [] item.type = "Query" ->
            << 81 >> \o PutU32(4 + Len(item.parts[1]) + 1) \o item.parts[1] \o << 0 >>
      [] item.type = "Parse" ->
            << 80 >>
            \o PutU32(4 + Len(item.parts[1]) + 1 + Len(item.parts[2]) + 1 + 2
                      + Len(item.nums) * 4)
            \o item.parts[1] \o << 0 >> \o item.parts[2] \o << 0 >>
            \o PutU16(Len(item.nums))
            \o Join([ i \in 1..Len(item.nums) |-> PutU32(item.nums[i]) ], << >>)
      [] item.type = "Regular" ->
            << item.num >> \o PutU32(Len(item.parts[1]) + 4) \o item.parts[1]

(***************************************************************************)
(* MySqlCodec (protocol/mysql.rs).  Inside a connection the upstream-      *)
(* facing codec is modelled on packets described by their kind, which      *)
(* fixes the first payload byte and whether the payload is shorter than 9  *)
(* bytes, the two things its dispatch looks at.                            *)
(***************************************************************************)
MySqlMessage(type, sequence_id, payload) ==
    [ type |-> type, sequence_id |-> sequence_id, payload |-> payload ]

\* mysql.rs:677-682, 762-772  encode_generic and encode_query
MySqlCodec_encode(item) ==
    LET payload == IF item.type = "Query" THEN << 3 >> \o item.payload ELSE item.payload
    IN  << Len(payload) % 256, (Len(payload) \div 256) % 256,
           (Len(payload) \div 65536) % 256, item.sequence_id >> \o payload

\* A packet from upstream: handshake (capability flags num), header (column
\* count num), coldef (names = << table, name >>), eof, ok, err, row
\* (values), malformed; rs tells which
\* result set a MySQL packet belongs to.  The same record describes frames
\* from a Postgres upstream: RowDescription (names), DataRow (values),
\* Regular (type byte num), Malformed.
UMsg(type, num, names, values, rs) ==
    [ type |-> type, num |-> num, names |-> names, values |-> values, rs |-> rs ]

\* packet[0] of an upstream packet
FirstByte(pkt) ==
    CASE pkt.type = "header" -> pkt.num
      [] pkt.type = "handshake" -> 10       \* protocol version 10
      [] pkt.type = "coldef" -> 3           \* lenenc length of catalog "def"
      [] pkt.type = "eof" -> 254
      [] pkt.type = "ok" -> 0
      [] pkt.type = "err" -> 255
      [] pkt.type = "row" ->
            IF Len(pkt.values) = 0 THEN 0
            ELSE IF IsNone(pkt.values[1]) THEN 251
            ELSE Len(Unwrap(pkt.values[1]).s)
      [] OTHER -> 1

\* mysql.rs:647-671  parse_result_row: column_count values, None once the
\* packet is used up
parse_result_row(values, column_count) ==
    [ i \in 1..column_count |-> IF i <= Len(values) THEN values[i] ELSE None ]

\* mysql.rs:209-370  decode of the codec built by new_client (is_client_side
\* = true): the message and the codec's state afterwards
MySqlCodec_decode_upstream(pkt, cs, deprecate_eof) ==
    LET first_byte == FirstByte(pkt)
        short_eof == first_byte = 254 /\ pkt.type = "eof"
        Out(type, st, values) == [ st |-> "ok", msg |-> [ pkt EXCEPT !.type = type, !.values = values ],
                                   state |-> st ]
        Fail == [ st |-> "err", msg |-> pkt, state |-> cs ]
    IN  IF pkt.type = "malformed" THEN Fail
        ELSE CASE cs.state = "WaitingHandshake" ->
                 IF pkt.type # "handshake" THEN Fail
                 ELSE Out("Handshake", [ cs EXCEPT !.state = "WaitingHandshakeResponse" ], pkt.values)
               [] cs.state = "WaitingHandshakeResponse" ->
                 IF first_byte = 0 THEN Out("Ok", [ cs EXCEPT !.state = "Command" ], pkt.values)
                 ELSE IF first_byte = 255 THEN Out("Err", cs, pkt.values)
                 ELSE Out("Generic", [ cs EXCEPT !.state = "Command" ], pkt.values)
               [] cs.state = "Command" ->
                 IF first_byte \notin { 0, 255, 254 } /\ first_byte < 251
                 THEN Out("Generic", [ state |-> "ReadingColumns", remaining |-> first_byte,
                                       column_count |-> first_byte ], pkt.values)
                 ELSE IF first_byte = 0 THEN Out("Ok", cs, pkt.values)
                 ELSE IF first_byte = 255 THEN Out("Err", cs, pkt.values)
                 ELSE IF short_eof THEN Out("Eof", cs, pkt.values)
                 ELSE Out("Generic", cs, pkt.values)
               [] cs.state = "ReadingColumns" ->
                 IF short_eof /\ ~deprecate_eof
                 THEN Out("Eof", [ cs EXCEPT !.state = "ReadingRows" ], pkt.values)
                 ELSE IF pkt.type # "coldef" THEN Fail
                 ELSE LET new_remaining == IF cs.remaining = 0 THEN 0 ELSE cs.remaining - 1
                      IN  Out("ColumnDefinition",
                              IF new_remaining = 0
                              THEN IF deprecate_eof THEN [ cs EXCEPT !.state = "ReadingRows" ]
                                   ELSE cs
                              ELSE [ cs EXCEPT !.remaining = new_remaining ],
                              pkt.values)
               [] cs.state = "ReadingRows" ->
                 IF short_eof THEN Out("Eof", [ cs EXCEPT !.state = "Command" ], pkt.values)
                 ELSE IF first_byte = 0 /\ deprecate_eof
                 THEN Out("Ok", [ cs EXCEPT !.state = "Command" ], pkt.values)
                 ELSE IF first_byte = 255 THEN Out("Err", [ cs EXCEPT !.state = "Command" ], pkt.values)
                 ELSE Out("ResultRow", cs, parse_result_row(pkt.values, cs.column_count))

(***************************************************************************)
(* The upstream-facing MySqlCodec (MySqlCodec::new_client) on bytes:       *)
(* every parser and every encoder of protocol/mysql.rs that this codec     *)
(* reaches.  Numbers are little-endian.  capability_flags is kept below    *)
(* 2^31.  Text is ASCII plus stray bytes of 128 or more, none of which     *)
(* starts a valid UTF-8 sequence.                                          *)
(***************************************************************************)
\* the value of an expression, computed once: the element of a singleton
Value(S) == CHOOSE v \in S : TRUE

RECURSIVE LE(_)
\* Buf::get_u16_le, get_u32_le and the shifts of read_lenenc_int
LE(b) == IF Len(b) = 0 THEN 0 ELSE b[1] + 256 * LE(Tail(b))

RECURSIVE PutLE(_, _)
\* BufMut::put_u16_le, put_u32_le, put_u64_le: n in width bytes
PutLE(n, width) == IF width = 0 THEN << >> ELSE << n % 256 >> \o PutLE(n \div 256, width - 1)

\* capability_flags & (1 << bit) != 0
HasFlag(capability_flags, bit) == (capability_flags \div (2 ^ bit)) % 2 = 1

\* String::from_utf8_lossy: U+FFFD (EF BF BD) for every invalid byte
from_utf8_lossy(b) ==
    Join([ i \in 1..Len(b) |-> IF b[i] < 128 THEN << b[i] >> ELSE << 239, 191, 189 >> ], << >>)

\* mysql.rs:398-444  read_lenenc_int and read_lenenc_int_from_buf
read_lenenc_int(buf) ==
    LET Fixed(n) == IF Len(buf) < n THEN Parsed("err", 0, buf)
                    ELSE Parsed("ok", LE(SubSeq(buf, 2, n)), Drop(buf, n))
    IN  IF Len(buf) = 0 THEN Parsed("err", 0, buf)
        ELSE CASE buf[1] <= 250 -> Parsed("ok", buf[1], Drop(buf, 1))
               [] buf[1] = 252 -> Fixed(3)
               [] buf[1] = 253 -> Fixed(4)
               [] buf[1] = 254 -> Fixed(9)
               [] buf[1] = 251 -> Parsed("ok", 0, Drop(buf, 1))
               [] OTHER -> Parsed("err", 0, buf)

\* mysql.rs:446-452  read_lenenc_string
read_lenenc_string(buf) ==
    LET len == read_lenenc_int(buf)
    IN  IF len.st # "ok" \/ Len(len.rest) < len.v THEN Parsed("err", << >>, buf)
        ELSE Parsed("ok", Take(len.rest, len.v), Drop(len.rest, len.v))

\* mysql.rs:454-462  read_null_terminated_string
read_null_terminated_string(buf) ==
    LET s == read_cstring_bytes(buf)
    IN  IF s.st = "ok" /\ \E i \in 1..Len(s.v) : s.v[i] >= 128 THEN Parsed("err", << >>, buf)
        ELSE s

write_lenenc_int_wide(val) == << 254 >> \o PutLE(val, 8)

\* mysql.rs:684-704  write_lenenc_int and write_lenenc_string
write_lenenc_int(val) ==
    IF val < 251 THEN << val >>
    ELSE IF val < 65536 THEN << 252 >> \o PutLE(val, 2)
    ELSE IF val < 16777216 THEN << 253 >> \o PutLE(val, 3)
    ELSE << 254 >> \o PutLE(val, 8)

write_lenenc_string(s) == write_lenenc_int(Len(s)) \o s

\* mysql.rs:677-682  write_packet_header, followed by the payload
Packet(sequence_id, payload) == PutLE(Len(payload), 3) \o << sequence_id % 256 >> \o payload

\* mysql.rs:464-513  parse_handshake_v10 (the struct has no sequence id)
parse_handshake_v10(buf) ==
    LET server_version == read_null_terminated_string(Drop(buf, 1))
        b == server_version.rest
        capability_flags == LE(SubSeq(b, 14, 15)) + 65536 * LE(SubSeq(b, 19, 20))
        auth_plugin_data_len == b[21]
        after == Drop(b, 31)
        part2_len == IF HasFlag(capability_flags, 15)
                     THEN (IF auth_plugin_data_len - 8 > 13 THEN auth_plugin_data_len - 8 ELSE 13)
                     ELSE 0
        has_part2 == part2_len > 0 /\ Len(after) >= part2_len
        data == Take(after, part2_len)
        zeros == { i \in 1..Len(data) : data[i] = 0 }
        part2 == IF ~has_part2 THEN << >>
                 ELSE IF zeros = {} THEN data
                 ELSE Take(data, (CHOOSE i \in zeros : \A j \in zeros : i <= j) - 1)
        tail == IF has_part2 THEN Drop(after, part2_len) ELSE after
        name == read_null_terminated_string(tail)
    IN  IF Len(buf) = 0 THEN Parsed("panic", << >>, << >>)
        ELSE IF server_version.st # "ok" THEN Parsed("err", << >>, << >>)
        ELSE IF Len(b) < 31 THEN Parsed("panic", << >>, << >>)
        ELSE Parsed("ok",
                    [ type |-> "Handshake", protocol_version |-> buf[1],
                      server_version |-> server_version.v,
                      connection_id |-> LE(SubSeq(b, 1, 4)),
                      auth_plugin_data_part1 |-> SubSeq(b, 5, 12),
                      capability_flags |-> capability_flags,
                      character_set |-> b[16],
                      status_flags |-> LE(SubSeq(b, 17, 18)),
                      auth_plugin_data_part2 |-> part2,
                      auth_plugin_name |->
                          IF HasFlag(capability_flags, 19) /\ Len(tail) > 0 /\ name.st = "ok"
                          THEN name.v ELSE << >> ],
                    << >>)

\* mysql.rs:558-579  parse_ok_packet
parse_ok_packet(buf, sequence_id, capability_flags) ==
    LET affected_rows == read_lenenc_int(Drop(buf, 1))
        last_insert_id == read_lenenc_int(affected_rows.rest)
        b == last_insert_id.rest
        v41 == HasFlag(capability_flags, 9)
    IN  IF affected_rows.st # "ok" \/ last_insert_id.st # "ok" THEN Parsed("err", << >>, << >>)
        ELSE IF v41 /\ Len(b) < 4 THEN Parsed("panic", << >>, << >>)
        ELSE Parsed("ok",
                    [ type |-> "Ok", sequence_id |-> sequence_id,
                      affected_rows |-> affected_rows.v,
                      last_insert_id |-> last_insert_id.v,
                      status_flags |-> IF v41 THEN LE(SubSeq(b, 1, 2)) ELSE 0,
                      warnings |-> IF v41 THEN LE(SubSeq(b, 3, 4)) ELSE 0,
                      info |-> IF v41 THEN Drop(b, 4) ELSE b ],
                    << >>)

\* mysql.rs:581-602  parse_err_packet
parse_err_packet(buf, sequence_id, capability_flags) ==
    LET v41 == HasFlag(capability_flags, 9)
    IN  IF Len(buf) < (IF v41 THEN 9 ELSE 3) THEN Parsed("panic", << >>, << >>)
        ELSE Parsed("ok",
                    [ type |-> "Err", sequence_id |-> sequence_id,
                      error_code |-> LE(SubSeq(buf, 2, 3)),
                      sql_state |-> IF v41 THEN SubSeq(buf, 5, 9) ELSE << 0, 0, 0, 0, 0 >>,
                      error_message |-> from_utf8_lossy(Drop(buf, IF v41 THEN 9 ELSE 3)) ],
                    << >>)

\* mysql.rs:604-614  parse_eof_packet
parse_eof_packet(buf, sequence_id) ==
    LET b == Drop(buf, 1)
        b2 == IF Len(b) >= 2 THEN Drop(b, 2) ELSE b
    IN  Parsed("ok",
               [ type |-> "Eof", sequence_id |-> sequence_id,
                 warnings |-> IF Len(b) >= 2 THEN LE(Take(b, 2)) ELSE 0,
                 status_flags |-> IF Len(b2) >= 2 THEN LE(Take(b2, 2)) ELSE 0 ],
               << >>)

\* mysql.rs:515-556  parse_handshake_response (the struct has no sequence
\* id); an optional string that fails to parse is the empty string
parse_handshake_response(buf) ==
    LET capability_flags == LE(SubSeq(buf, 1, 4))
        username == read_null_terminated_string(Drop(buf, 32))
        b == username.rest
        secure == HasFlag(capability_flags, 15)
        zeros == { i \in 1..Len(b) : b[i] = 0 }
        pos == IF zeros = {} THEN Len(b) + 1 ELSE CHOOSE i \in zeros : \A j \in zeros : i <= j
        auth_response == IF secure THEN SubSeq(b, 2, 1 + b[1]) ELSE Take(b, pos - 1)
        after_auth == IF secure THEN Drop(b, 1 + b[1]) ELSE Drop(b, pos)
        database == read_null_terminated_string(after_auth)
        after_db == IF Len(after_auth) = 0 \/ database.st # "ok" THEN after_auth ELSE database.rest
        plugin == read_null_terminated_string(after_db)
    IN  IF Len(buf) < 32 THEN Parsed("panic", << >>, << >>)
        ELSE IF username.st # "ok" THEN Parsed("err", << >>, << >>)
        ELSE IF secure /\ (Len(b) = 0 \/ Len(b) - 1 < b[1]) THEN Parsed("panic", << >>, << >>)
        ELSE Parsed("ok",
                    [ type |-> "HandshakeResponse", capability_flags |-> capability_flags,
                      max_packet_size |-> LE(SubSeq(buf, 5, 8)), character_set |-> buf[9],
                      username |-> username.v, auth_response |-> auth_response,
                      database |-> IF Len(after_auth) = 0 THEN None
                                   ELSE Some(IF database.st = "ok" THEN database.v ELSE << >>),
                      auth_plugin_name |->
                          IF HasFlag(capability_flags, 19) /\ Len(after_db) > 0
                          THEN Some(IF plugin.st = "ok" THEN plugin.v ELSE << >>)
                          ELSE None ],
                    << >>)

\* mysql.rs:191-311  decode of the codec built by new_server (is_client_side
\* = false): st, the message v.msg, the codec's state v.state afterwards
\* and what is left of src.  WaitingHandshakeResponse is the only state
\* that parses a HandshakeResponse, and only the branch of the other role
\* assigns it (mysql.rs:216); ReadingColumns and ReadingRows are entered
\* from that role's branches only.
MySqlCodec_decode(src, state) ==
    IF Len(src) < 4 THEN NeedMore(src)
    ELSE LET payload_len == src[1] + src[2] * 256 + src[3] * 65536
             sequence_id == src[4]
             total_len == 4 + payload_len
             packet == SubSeq(src, 5, total_len)
             Msg(type, payload) ==
                 Parsed("ok", [ msg |-> MySqlMessage(type, sequence_id, payload),
                                state |-> state ], Drop(src, total_len))
         IN  IF Len(src) < total_len THEN NeedMore(src)
             ELSE IF state = "WaitingHandshake" THEN Msg("Generic", packet)
             ELSE IF state = "WaitingHandshakeResponse"
             THEN Value({ IF r.st # "ok"
                          THEN Parsed(r.st, [ msg |-> << >>, state |-> state ], Drop(src, total_len))
                          ELSE Parsed("ok", [ msg |-> r.v, state |-> "Command" ],
                                      Drop(src, total_len)) :
                          r \in { parse_handshake_response(packet) } })
             ELSE IF Len(packet) = 0 THEN Msg("Generic", packet)
             ELSE CASE packet[1] = 3 -> Msg("Query", Drop(packet, 1))
                    [] packet[1] = 0 -> Msg("Ok", packet)
                    [] packet[1] = 255 -> Msg("Err", packet)
                    [] packet[1] = 254 /\ Len(packet) < 9 -> Msg("Eof", packet)
                    [] OTHER -> Msg("Generic", packet)

RECURSIVE ReadLenencStrings(_, _, _)
\* mysql.rs:617-622  the six strings of a column definition
ReadLenencStrings(buf, n, strings) ==
    IF n = 0 THEN Parsed("ok", strings, buf)
    ELSE Value({ IF s.st # "ok" THEN Parsed("err", << >>, buf)
                 ELSE ReadLenencStrings(s.rest, n - 1, Append(strings, s.v)) :
                 s \in { read_lenenc_string(buf) } })

\* mysql.rs:616-645  parse_column_definition; strings are catalog, schema,
\* table, org_table, name, org_name
parse_column_definition(buf, sequence_id) ==
    Value({ LET b == strings.rest
            IN  IF strings.st # "ok" THEN Parsed("err", << >>, << >>)
                ELSE IF Len(b) < 13 THEN Parsed("panic", << >>, << >>)
                ELSE Parsed("ok",
                            [ type |-> "ColumnDefinition", sequence_id |-> sequence_id,
                              strings |-> strings.v,
                              character_set |-> LE(SubSeq(b, 2, 3)),
                              column_length |-> LE(SubSeq(b, 4, 7)),
                              column_type |-> b[8],
                              flags |-> LE(SubSeq(b, 9, 10)),
                              decimals |-> b[11] ],
                            << >>) :
            strings \in { ReadLenencStrings(buf, 6, << >>) } })

RECURSIVE RowValuesPresent(_, _, _)
\* a row parser that returns the values the packet holds and stops there
RowValuesPresent(buf, n, values) ==
    IF n = 0 \/ Len(buf) = 0 THEN Parsed("ok", values, buf)
    ELSE IF buf[1] = 251 THEN RowValuesPresent(Drop(buf, 1), n - 1, Append(values, None))
    ELSE Value({ IF len.st # "ok" \/ Len(len.rest) < len.v THEN Parsed("ok", values, buf)
                 ELSE RowValuesPresent(Drop(len.rest, len.v), n - 1,
                                       Append(values, Some(Take(len.rest, len.v)))) :
                 len \in { read_lenenc_int(buf) } })

RECURSIVE ReadRowValues(_, _, _)
\* mysql.rs:650-668  the loop of parse_result_row
ReadRowValues(buf, n, values) ==
    IF n = 0 THEN Parsed("ok", values, buf)
    ELSE IF Len(buf) = 0 THEN ReadRowValues(buf, n - 1, Append(values, None))
    ELSE IF buf[1] = 251 THEN ReadRowValues(Drop(buf, 1), n - 1, Append(values, None))
    ELSE Value({ IF len.st # "ok" THEN Parsed("err", << >>, buf)
                 ELSE IF Len(len.rest) >= len.v
                 THEN ReadRowValues(Drop(len.rest, len.v), n - 1,
                                    Append(values, Some(Take(len.rest, len.v))))
                 ELSE ReadRowValues(len.rest, n - 1, Append(values, None)) :
                 len \in { read_lenenc_int(buf) } })

\* mysql.rs:191-372  decode of the codec built by new_client (is_client_side
\* = true) on the read buffer src; c holds state, remaining, column_count
\* and capability_flags; v is the message and the codec afterwards
MySqlCodec_decode_client(src, c) ==
    LET payload_len == LE(Take(src, 3))
        sequence_id == src[4]
        total_len == 4 + payload_len
        packet == SubSeq(src, 5, total_len)
        deprecate == HasFlag(c.capability_flags, 24)
        Out(parsed, state) ==
            Value({ IF p.st # "ok"
                    THEN Parsed(p.st, [ msg |-> << >>, codec |-> c ], Drop(src, total_len))
                    ELSE Parsed("ok", [ msg |-> p.v, codec |-> state ], Drop(src, total_len)) :
                    p \in { parsed } })
        To(state) == [ c EXCEPT !.state = state ]
        Generic == Parsed("ok", MySqlMessage("Generic", sequence_id, packet), << >>)
        Ok == parse_ok_packet(packet, sequence_id, c.capability_flags)
        Err == parse_err_packet(packet, sequence_id, c.capability_flags)
        Eof == parse_eof_packet(packet, sequence_id)
        short_eof == packet[1] = 254 /\ Len(packet) < 9
    IN  IF Len(src) < 4 \/ Len(src) < total_len THEN NeedMore(src)
        ELSE CASE c.state = "WaitingHandshake" ->
                    Out(parse_handshake_v10(packet), To("WaitingHandshakeResponse"))
               [] c.state = "WaitingHandshakeResponse" ->
                    IF Len(packet) = 0 THEN Out(Parsed("panic", << >>, << >>), c)
                    ELSE IF packet[1] = 0 THEN Out(Ok, To("Command"))
                    ELSE IF packet[1] = 255 THEN Out(Err, c)
                    ELSE Out(Generic, To("Command"))
               [] c.state = "Command" ->
                    LET col_count == read_lenenc_int(packet)
                    IN  IF Len(packet) = 0 THEN Out(Generic, c)
                        ELSE IF packet[1] \notin { 0, 255, 254 } /\ col_count.st # "ok"
                        THEN Out(Parsed("err", << >>, << >>), c)
                        ELSE IF packet[1] \notin { 0, 255, 254 }
                                /\ col_count.v > 0 /\ col_count.v < 1000
                        THEN Out(Generic, [ c EXCEPT !.state = "ReadingColumns",
                                                     !.remaining = col_count.v,
                                                     !.column_count = col_count.v ])
                        ELSE IF packet[1] = 0 THEN Out(Ok, c)
                        ELSE IF packet[1] = 255 THEN Out(Err, c)
                        ELSE IF short_eof THEN Out(Eof, c)
                        ELSE Out(Generic, c)
               [] c.state = "ReadingColumns" ->
                    LET new_remaining == IF c.remaining = 0 THEN 0 ELSE c.remaining - 1
                    IN  IF Len(packet) = 0 THEN Out(Parsed("panic", << >>, << >>), c)
                        ELSE IF short_eof /\ ~deprecate THEN Out(Eof, To("ReadingRows"))
                        ELSE Out(parse_column_definition(packet, sequence_id),
                                 IF new_remaining = 0
                                 THEN (IF deprecate THEN To("ReadingRows") ELSE c)
                                 ELSE [ c EXCEPT !.remaining = new_remaining ])
               [] OTHER ->     \* ReadingRows
                    LET row == ReadRowValues(packet, c.column_count, << >>)
                    IN  IF Len(packet) = 0 THEN Out(Parsed("panic", << >>, << >>), c)
                        ELSE IF short_eof THEN Out(Eof, To("Command"))
                        ELSE IF packet[1] = 0 /\ deprecate THEN Out(Ok, To("Command"))
                        ELSE IF packet[1] = 255 THEN Out(Err, To("Command"))
                        ELSE IF row.st # "ok" THEN Out(row, c)
                        ELSE Out(Parsed("ok", [ type |-> "ResultRow", sequence_id |-> sequence_id,
                                                values |-> row.v ], << >>), c)

\* mysql.rs:375-392, 706-848  MySqlCodec::encode: the bytes appended to dst
MySqlCodec_encode_all(item, capability_flags) ==
    CASE item.type = "Handshake" ->
            Packet(0, << item.protocol_version >> \o item.server_version \o << 0 >>
                      \o PutLE(item.connection_id, 4) \o item.auth_plugin_data_part1 \o << 0 >>
                      \o PutLE(item.capability_flags % 65536, 2) \o << item.character_set >>
                      \o PutLE(item.status_flags, 2)
                      \o PutLE(item.capability_flags \div 65536, 2)
                      \o << (Len(item.auth_plugin_data_part2) + 8 + 1) % 256 >>
                      \o << 0, 0, 0, 0, 0, 0, 0, 0, 0, 0 >>
                      \o item.auth_plugin_data_part2 \o << 0 >>
                      \o (IF Len(item.auth_plugin_name) # 0
                          THEN item.auth_plugin_name \o << 0 >> ELSE << >>))
      [] item.type = "HandshakeResponse" ->
            Packet(1, PutLE(item.capability_flags, 4) \o PutLE(item.max_packet_size, 4)
                      \o << item.character_set >>
                      \o << 0, 0, 0, 0, 0, 0, 0, 0, 0, 0, 0, 0, 0, 0, 0, 0, 0, 0, 0, 0, 0, 0, 0 >>
                      \o item.username \o << 0 >>
                      \o (IF HasFlag(item.capability_flags, 15)
                          THEN << Len(item.auth_response) % 256 >> \o item.auth_response
                          ELSE item.auth_response \o << 0 >>)
                      \o (IF IsSome(item.database) THEN Unwrap(item.database) \o << 0 >> ELSE << >>)
                      \o (IF IsSome(item.auth_plugin_name)
                          THEN Unwrap(item.auth_plugin_name) \o << 0 >> ELSE << >>))
      [] item.type = "ColumnDefinition" ->
            Packet(item.sequence_id,
                   Join([ i \in 1..6 |-> write_lenenc_string(item.strings[i]) ], << >>)
                   \o << 12 >> \o PutLE(item.character_set, 2) \o PutLE(item.column_length, 4)
                   \o << item.column_type >> \o PutLE(item.flags, 2) \o << item.decimals >>
                   \o << 0, 0 >>)
      [] item.type = "ResultRow" ->
            Packet(item.sequence_id,
                   Join([ i \in 1..Len(item.values) |->
                            IF IsSome(item.values[i])
                            THEN write_lenenc_string(Unwrap(item.values[i]))
                            ELSE << 251 >> ], << >>))
      [] item.type = "Ok" ->
            Packet(item.sequence_id,
                   << 0 >> \o write_lenenc_int(item.affected_rows)
                   \o write_lenenc_int(item.last_insert_id)
                   \o (IF HasFlag(capability_flags, 9)
                       THEN PutLE(item.status_flags, 2) \o PutLE(item.warnings, 2) ELSE << >>)
                   \o item.info)
      [] item.type = "Err" ->
            Packet(item.sequence_id,
                   << 255 >> \o PutLE(item.error_code, 2)
                   \o (IF HasFlag(capability_flags, 9)
                       THEN << 35 >> \o item.sql_state ELSE << >>)
                   \o item.error_message)
      [] item.type = "Eof" ->
            Packet(item.sequence_id,
                   << 254 >> \o PutLE(item.warnings, 2) \o PutLE(item.status_flags, 2))
      [] OTHER -> MySqlCodec_encode(item)

VARIABLES
    \* ---- listener (main.rs, fn main) ----
    mainPc,               \* "accepting" | "draining" | "exited"
    now,                  \* the monotonic clock, in ticks
    rate_limit,           \* limits.connections_per_second : Option<u32>
    max_connections,      \* limits.max_connections : Option<usize>
    rate_limit_tokens,    \* tokens left in the bucket
    last_refill,          \* Instant of the last refill
    sem_permits,          \* permits available in connection_semaphore
    spawned,              \* connection tasks spawned and not yet polled
    running,              \* connection tasks between fetch_add and their end
    active_connections,   \* the gauge state.active_connections
    shutdown_timeout,     \* args.shutdown_timeout, in ticks
    drain_start,          \* Instant taken when draining starts
    accepted,             \* sockets accepted so far
    passedSinceRefill,    \* history: sockets that passed the rate check since the last refill
    recent,               \* history: the last three accepts
    limitHistory          \* history: "none" | "rejected" | "readmitted"

acceptVars == << mainPc, now, rate_limit, max_connections, rate_limit_tokens,
                 last_refill, sem_permits, spawned, running, active_connections,
                 shutdown_timeout, drain_start, accepted, passedSinceRefill,
                 recent, limitHistory >>


VARIABLES
    \* ---- AppState (state.rs) ----
    rules,                \* config.rules : Vec<MaskingRule>
    masking_enabled,      \* config.masking_enabled
    stats,                \* stats.masking : MaskingStats
    logs,                 \* the log ring, newest first
    \* ---- Anonymizer / MySqlAnonymizer (interceptor.rs) ----
    target_cols,          \* Anonymizer.target_cols
    my_target_cols,       \* MySqlAnonymizer.target_cols
    column_names,         \* MySqlAnonymizer.column_names
    calls,                \* interceptor calls made so far
    rowCalls,             \* of which on_data_row / on_result_row
    edits,                \* management requests served so far
    lastCall              \* history: the last interceptor call, its input and result

maskVars == << rules, masking_enabled, stats, logs, target_cols, my_target_cols,
               column_names, calls, rowCalls, edits, lastCall >>

VARIABLES
    \* ---- one connection task (main.rs, process_*_connection) ----
    protocol,             \* args.protocol : "postgres" | "mysql"
    pc,                   \* position of the connection task
    tls_acceptor,         \* Option<TlsAcceptor> is Some
    upstream_tls,         \* config.upstream_tls
    is_startup,           \* PostgresCodec.is_startup of the client-facing codec
    my_state,             \* MySqlCodec.state / column_count of the upstream-facing codec
    client_state,         \* MySqlCodec.state of the client-facing codec
    deprecate_eof,        \* capability_flags & CLIENT_DEPRECATE_EOF != 0
    clientBuf,            \* bytes received from the client and not yet decoded
    clientWire,           \* bytes the client wrote that have not arrived yet
    clientEof,            \* the client closed its side
    upstreamIn,           \* packets received from upstream and not yet decoded
    upstreamEof,          \* upstream closed its side
    clientSent,           \* history: frames the client wrote so far (a count)
    upstreamSent,         \* history: frames upstream wrote so far (a count)
    clientTaken,          \* history: frames taken from the client, in order
    upstreamTaken,        \* history: frames taken from upstream, in order
    upOut,                \* everything written to upstream, in order
    clOut                 \* everything written to the client, in order

connVars == << protocol, pc, tls_acceptor, upstream_tls, is_startup, my_state, client_state,
               deprecate_eof, clientBuf, clientWire, clientEof, upstreamIn, upstreamEof,
               clientSent, upstreamSent, clientTaken, upstreamTaken, upOut, clOut >>

VARIABLES
    \* ---- upstream health (state.rs, AppState) ----
    health_status,        \* health_status: healthy and the two counters
    upstream_healthy,     \* the AtomicBool upstream_healthy
    unhealthy_threshold,  \* health_check.unhealthy_threshold, or 3
    healthy_threshold,    \* health_check.healthy_threshold, or 1
    probes,               \* update_health_status calls so far
    lastProbe             \* history: the result reported last and the flag before it

healthVars == << health_status, upstream_healthy, unhealthy_threshold,
                 healthy_threshold, probes, lastProbe >>

VARIABLES
    \* ---- one codec on its own (protocol/postgres.rs, protocol/mysql.rs) ----
    codec,                \* the codec's fields: is_startup, or state, column_count, capability_flags
    codecQueue,           \* messages still to be encoded onto the wire
    codecWire,            \* bytes written to the socket and not yet read
    codecBuf,             \* the Framed read buffer src
    codecOut,             \* history: the outcome of every decode that did not ask for more
    codecEcho,            \* the bytes encode produced for the decoded messages, in order
    codecFed,             \* history: the codec as constructed, the messages encoded and every byte written
    lastDecode            \* history: the last decode call, buffer and codec before and after

codecVars == << codec, codecQueue, codecWire, codecBuf, codecOut, codecEcho,
                codecFed, lastDecode >>

VARIABLES
    \* ---- AppState shared by the tasks (state.rs): the locks and the config file ----
    log_pc,               \* position of each connection task inside add_log
    appended,             \* history: entries pushed onto the log ring so far
    config_file,          \* what the file at config_path holds
    config_lock,          \* the RwLock around config: "free" | "write"
    reload_pc,            \* position of the reloader inside reload_config
    new_config,           \* reload_config's local new_config
    lastReload,           \* history: the result of the last reload_config and the config around it
    observed              \* history: the config a reader saw last under its read guard

stateVars == << log_pc, appended, config_file, config_lock, reload_pc, new_config,
                lastReload, observed >>

VARIABLES
    \* ---- the tasks on the shared locks (state.rs: the RwLocks of AppState) ----
    lock_held,            \* per lock: the task holding the write guard and the tasks holding read guards
    lock_queue,           \* per lock: the requests waiting, oldest first
    task,                 \* per task: the operation it runs, its lock steps and its position
    masksMade             \* history: record_masking calls completed, per strategy name passed

lockVars == << lock_held, lock_queue, task, masksMade >>

vars == << acceptVars, maskVars, connVars, healthVars, codecVars, stateVars, lockVars >>

\* the variables the listener's specification leaves alone
notAccept == << maskVars, connVars, healthVars, codecVars, stateVars, lockVars >>
\* the variables the masking engine's specification leaves alone
notMask == << acceptVars, connVars, healthVars, codecVars, stateVars, lockVars >>
\* the variables one connection task leaves alone
notConn == << acceptVars, calls, rowCalls, edits, lastCall, healthVars, codecVars, stateVars, lockVars >>
\* the variables the health tracking leaves alone
notHealth == << acceptVars, maskVars, connVars, codecVars, stateVars, lockVars >>
\* the variables a codec on its own leaves alone
notCodec == << acceptVars, maskVars, connVars, healthVars, stateVars, lockVars >>

\* the variables the operations on the shared state leave alone
notState == << acceptVars, stats, target_cols, my_target_cols, column_names, calls, rowCalls,
               edits, lastCall, connVars, healthVars, codecVars, lockVars >>

\* the variables the tasks on the shared locks leave alone
notLocks == << acceptVars, rules, masking_enabled, logs, target_cols, my_target_cols,
               column_names, calls, rowCalls, edits, lastCall, connVars, healthVars,
               codecVars, stateVars >>

\* connection tasks that log
LogTasks == 1..2

\* the tasks on the shared locks: two connection tasks, the health updater
\* and one management handler
ConnTasks == { "connection 1", "connection 2" }
HealthTask == "health updater"
ApiTask == "management handler"
Tasks == ConnTasks \cup { HealthTask, ApiTask }

\* state.rs:145-161  the RwLocks of AppState the tasks share
LockNames == { "config", "health_status", "stats", "logs" }

\* strategy names the row handlers pass to record_masking
MaskNames == { "email", "bogus" }

\* nobody holds the write guard
NoTask == "none"

\* a task between two operations
IdleTask == [ op |-> "idle", prog |-> << >>, ip |-> 1, local |-> 0 ]

\* No task has touched a lock yet.
LocksIdle ==
    /\ lock_held = [ l \in LockNames |-> [ writer |-> NoTask, readers |-> {} ] ]
    /\ lock_queue = [ l \in LockNames |-> << >> ]
    /\ task = [ t \in Tasks |-> IdleTask ]
    /\ masksMade = [ n \in MaskNames |-> 0 ]

\* AppConfig as far as the model goes
AppConfig(enabled, rule_list) == [ masking_enabled |-> enabled, rules |-> rule_list ]

\* No add_log runs, no reload was asked for, the file is gone.
StateIdle ==
    /\ log_pc = [ c \in LogTasks |-> "idle" ]
    /\ appended = 0
    /\ config_file = [ exists |-> FALSE, yaml |-> FALSE, masking_enabled |-> << >>, rules |-> << >> ]
    /\ config_lock = "free"
    /\ reload_pc = "idle"
    /\ new_config = AppConfig(TRUE, << >>)
    /\ lastReload = [ result |-> "none", file |-> config_file,
                      before |-> AppConfig(TRUE, << >>), after |-> AppConfig(TRUE, << >>) ]
    /\ observed = AppConfig(TRUE, << >>)

\* PostgresCodec::new / new_upstream and MySqlCodec::new_server / new_client:
\* the fields of either codec in one record; is_client_side tells the
\* upstream-facing codec
NewCodec(protocol_name, is_client_side) ==
    [ protocol |-> protocol_name, is_startup |-> ~is_client_side, is_client_side |-> is_client_side,
      state |-> "WaitingHandshake", remaining |-> 0, column_count |-> 0,
      capability_flags |-> 0 ]

\* no decode call was made yet
NoDecode == [ st |-> "never", before |-> << >>, after |-> << >>,
              codecBefore |-> NewCodec("postgres", FALSE),
              codecAfter |-> NewCodec("postgres", FALSE) ]

\* No codec is exercised on its own.
CodecIdle ==
    /\ codec = NewCodec("postgres", FALSE)
    /\ codecQueue = << >>
    /\ codecWire = << >>
    /\ codecBuf = << >>
    /\ codecOut = << >>
    /\ codecEcho = << >>
    /\ codecFed = [ codec |-> NewCodec("postgres", FALSE), sent |-> << >>, bytes |-> << >> ]
    /\ lastDecode = NoDecode

\* state.rs:34-45, 228-229  HealthStatus::default and AppState::new, with no
\* health_check section configured
HealthIdle ==
    /\ health_status = [ healthy |-> TRUE, consecutive_failures |-> 0,
                         consecutive_successes |-> 0 ]
    /\ upstream_healthy = TRUE
    /\ unhealthy_threshold = 3
    /\ healthy_threshold = 1
    /\ probes = 0
    /\ lastProbe = [ healthy |-> TRUE, before |-> TRUE ]

\* No connection task was started.
ConnIdle ==
    /\ protocol = "postgres"
    /\ pc = "idle"
    /\ tls_acceptor = FALSE
    /\ upstream_tls = FALSE
    /\ is_startup = TRUE
    /\ my_state = [ state |-> "WaitingHandshake", remaining |-> 0, column_count |-> 0 ]
    /\ client_state = "WaitingHandshake"
    /\ deprecate_eof = FALSE
    /\ clientBuf = << >>
    /\ clientWire = << >>
    /\ clientEof = FALSE
    /\ upstreamIn = << >>
    /\ upstreamEof = FALSE
    /\ clientSent = 0
    /\ upstreamSent = 0
    /\ clientTaken = << >>
    /\ upstreamTaken = << >>
    /\ upOut = << >>
    /\ clOut = << >>

\* The listener before any socket was accepted, with no limits configured.
AcceptIdle ==
    /\ mainPc = "accepting"
    /\ now = 0
    /\ rate_limit = None
    /\ max_connections = None
    /\ rate_limit_tokens = 0
    /\ last_refill = 0
    /\ sem_permits = 0
    /\ spawned = 0
    /\ running = 0
    /\ active_connections = 0
    /\ shutdown_timeout = 0
    /\ drain_start = 0
    /\ accepted = 0
    /\ passedSinceRefill = 0
    /\ recent = << >>
    /\ limitHistory = "none"

\* No interceptor call was made yet.
NoCall ==
    [ op |-> "none", rules |-> << >>, fields |-> << >>, col |-> [ table |-> "", name |-> "" ],
      msg |-> << >>, results |-> << >>, masking_enabled |-> TRUE,
      target_cols |-> << >>, column_names |-> << >>,
      stats |-> [ n \in StatNames |-> 0 ], logs |-> << >> ]

\* AppState::new and the interceptors' constructors, with the default
\* configuration (no rules, masking enabled).
MaskIdle ==
    /\ rules = << >>
    /\ masking_enabled = TRUE
    /\ stats = [ n \in StatNames |-> 0 ]
    /\ logs = << >>
    /\ target_cols = << >>
    /\ my_target_cols = << >>
    /\ column_names = << >>
    /\ calls = 0
    /\ rowCalls = 0
    /\ edits = 0
    /\ lastCall = NoCall

(***************************************************************************)
(* The listener: main.rs lines 164-305.                                    *)
(***************************************************************************)

\* main.rs:195-196  elapsed >= Duration::from_secs(1)
RefillDue(elapsed) == elapsed >= TicksPerSec

\* main.rs:197  the bucket is set to max_rate
RefillTo(max_rate) == max_rate

BucketNeverEmpty(tokens) == FALSE

\* main.rs:201  the bucket is empty
BucketEmpty(tokens) == tokens = 0

\* main.rs:206  u32::saturating_sub(1)
SaturatingSub1(n) == IF n > 0 THEN n - 1 ELSE 0

TryAcquireAlways(permits) == TRUE

\* main.rs:211  Semaphore::try_acquire_owned succeeds when a permit is available
TryAcquireOk(permits) == permits > 0

\* main.rs:232  dropping the OwnedSemaphorePermit gives the permit back
ReleasePermit(permits) == permits + 1

DrainOnlyWhenIdle(gauge, elapsed, timeout_duration) == gauge = 0

\* main.rs:295-301  the drain loop is left: the gauge reads 0, or the grace
\* period has elapsed
DrainDue(gauge, elapsed, timeout_duration) == gauge = 0 \/ elapsed >= timeout_duration

\* The last three entries of a history, with one more appended.
Last3(h, e) == IF Len(h) < 3 THEN Append(h, e) ELSE << h[2], h[3], e >>

AcceptInit ==
    /\ mainPc = "accepting"
    /\ now = 0
    /\ rate_limit \in {None} \cup { Some(n) : n \in 0..MaxRate }
    /\ max_connections \in {None} \cup { Some(m) : m \in 0..MaxConns }
    /\ rate_limit_tokens = (IF IsSome(rate_limit) THEN Unwrap(rate_limit) ELSE 0)
    /\ last_refill = 0
    /\ sem_permits = (IF IsSome(max_connections) THEN Unwrap(max_connections) ELSE 0)
    /\ spawned = 0
    /\ running = 0
    /\ active_connections = 0
    /\ shutdown_timeout \in 0..MaxGrace
    /\ drain_start = 0
    /\ accepted = 0
    /\ passedSinceRefill = 0
    /\ recent = << >>
    /\ limitHistory = "none"
    /\ MaskIdle
    /\ LocksIdle
    /\ ConnIdle
    /\ HealthIdle
    /\ CodecIdle
    /\ StateIdle

\* Time passes.
Tick ==
    /\ mainPc # "exited"
    /\ \/ now < MaxTime
       \/ mainPc = "draining" /\ now - drain_start < shutdown_timeout * TicksPerSec
    /\ now' = now + 1
    /\ UNCHANGED << mainPc, rate_limit, max_connections, rate_limit_tokens,
                    last_refill, sem_permits, spawned, running, active_connections,
                    shutdown_timeout, drain_start, accepted, passedSinceRefill,
                    recent, limitHistory >>
    /\ UNCHANGED notAccept

\* main.rs:189-274  one iteration of the accept loop: listener.accept() returned
\* a socket; rate check, connection-limit check, tokio::spawn.
Accept ==
    /\ mainPc = "accepting"
    /\ accepted < MaxAccepts
    /\ LET limited  == IsSome(rate_limit)
           refill   == limited /\ RefillDue(now - last_refill)
           tokens1  == IF refill THEN RefillTo(Unwrap(rate_limit)) ELSE rate_limit_tokens
           refill1  == IF refill THEN now ELSE last_refill
           rateRej  == limited /\ BucketEmpty(tokens1)
           tokens2  == IF limited /\ ~rateRej THEN SaturatingSub1(tokens1) ELSE tokens1
           hasSem   == IsSome(max_connections)
           limitRej == ~rateRej /\ hasSem /\ ~TryAcquireOk(sem_permits)
           spawn    == ~rateRej /\ ~limitRej
           passed0  == IF refill THEN 0 ELSE passedSinceRefill
       IN  /\ rate_limit_tokens' = tokens2
           /\ last_refill' = refill1
           /\ passedSinceRefill' = (IF limited /\ ~rateRej THEN passed0 + 1 ELSE passed0)
           /\ sem_permits' = (IF spawn /\ hasSem THEN sem_permits - 1 ELSE sem_permits)
           /\ spawned' = (IF spawn THEN spawned + 1 ELSE spawned)
           /\ recent' = Last3(recent, [ t |-> now, admitted |-> ~rateRej,
                                        refilled |-> refill, prev |-> last_refill,
                                        window |-> refill1, found |-> tokens1,
                                        permits |-> sem_permits, task |-> spawn,
                                        written |-> 0 ])
           /\ limitHistory' = (IF limitRej THEN "rejected"
                               ELSE IF spawn /\ hasSem /\ limitHistory = "rejected"
                                    THEN "readmitted" ELSE limitHistory)
    /\ accepted' = accepted + 1
    /\ UNCHANGED << mainPc, now, rate_limit, max_connections, running,
                    active_connections, shutdown_timeout, drain_start >>
    /\ UNCHANGED notAccept

\* main.rs:230-243  the spawned task is polled for the first time: it holds its
\* permit and increments the gauge.
TaskStart ==
    /\ mainPc # "exited"
    /\ spawned > 0
    /\ spawned' = spawned - 1
    /\ running' = running + 1
    /\ active_connections' = active_connections + 1
    /\ UNCHANGED << mainPc, now, rate_limit, max_connections, rate_limit_tokens,
                    last_refill, sem_permits, shutdown_timeout, drain_start,
                    accepted, passedSinceRefill, recent, limitHistory >>
    /\ UNCHANGED notAccept

\* main.rs:244-273  the connection function returned (Ok or Err): the gauge is
\* decremented and the task's future ends, dropping _permit.
TaskExit ==
    /\ mainPc # "exited"
    /\ running > 0
    /\ running' = running - 1
    /\ active_connections' = active_connections - 1
    /\ sem_permits' = (IF IsSome(max_connections) THEN ReleasePermit(sem_permits)
                       ELSE sem_permits)
    /\ UNCHANGED << mainPc, now, rate_limit, max_connections, rate_limit_tokens,
                    last_refill, spawned, shutdown_timeout, drain_start,
                    accepted, passedSinceRefill, recent, limitHistory >>
    /\ UNCHANGED notAccept

\* main.rs:230-273  the connection function panicked (a codec panic): the task
\* unwinds, dropping _permit; line 265 is not reached.
TaskPanic ==
    /\ mainPc # "exited"
    /\ running > 0
    /\ running' = running - 1
    /\ sem_permits' = (IF IsSome(max_connections) THEN ReleasePermit(sem_permits)
                       ELSE sem_permits)
    /\ UNCHANGED << mainPc, now, rate_limit, max_connections, rate_limit_tokens,
                    last_refill, spawned, active_connections, shutdown_timeout,
                    drain_start, accepted, passedSinceRefill, recent, limitHistory >>
    /\ UNCHANGED notAccept

\* main.rs:277-292  the shutdown signal is observed: the loop is left.
Shutdown ==
    /\ mainPc = "accepting"
    /\ mainPc' = "draining"
    /\ drain_start' = now
    /\ UNCHANGED << now, rate_limit, max_connections, rate_limit_tokens,
                    last_refill, sem_permits, spawned, running, active_connections,
                    shutdown_timeout, accepted, passedSinceRefill, recent,
                    limitHistory >>
    /\ UNCHANGED notAccept

\* main.rs:295-305  one evaluation of the drain loop that leaves it: the gauge
\* reads 0, or the grace period has elapsed.  Returning from main drops the
\* runtime and with it every task.
DrainExit ==
    /\ mainPc = "draining"
    /\ DrainDue(active_connections, now - drain_start, shutdown_timeout * TicksPerSec)
    /\ mainPc' = "exited"
    /\ spawned' = 0
    /\ running' = 0
    /\ sem_permits' = (IF IsSome(max_connections)
                       THEN sem_permits + spawned + running ELSE sem_permits)
    /\ UNCHANGED << now, rate_limit, max_connections, rate_limit_tokens,
                    last_refill, active_connections, shutdown_timeout,
                    drain_start, accepted, passedSinceRefill, recent, limitHistory >>
    /\ UNCHANGED notAccept

AcceptNext ==
    \/ Tick
    \/ Accept
    \/ TaskStart
    \/ TaskExit
    \/ TaskPanic
    \/ Shutdown
    \/ DrainExit

SpecAccept == AcceptInit /\ [][AcceptNext]_vars

\* The clock advances and the drain loop is polled (every 100 ms,
\* main.rs:301); no connection task is required ever to finish.
SpecAcceptLive == SpecAccept /\ WF_vars(Tick) /\ WF_vars(DrainExit)

(***************************************************************************)
(* The masking engine driven call by call: the interceptors receive column *)
(* descriptors and rows, the management API edits the configuration.       *)
(***************************************************************************)
MaskInit ==
    /\ AcceptIdle
    /\ LocksIdle
    /\ ConnIdle
    /\ HealthIdle
    /\ CodecIdle
    /\ StateIdle
    /\ rules \in { << >>,
                   << Rule(Some("users"), "email", "hash"), Rule(None, "email", "email") >>,
                   << Rule(None, "email", "email"), Rule(None, "doc", "json") >> }
    /\ masking_enabled \in BOOLEAN
    /\ stats = [ n \in StatNames |-> 0 ]
    /\ logs = << >>
    /\ target_cols = << >>
    /\ my_target_cols = << >>
    /\ column_names = << >>
    /\ calls = 0
    /\ rowCalls = 0
    /\ edits = 0
    /\ lastCall = NoCall

\* the state of the engine a call starts from
Before(op) ==
    [ NoCall EXCEPT !.op = op, !.rules = rules, !.masking_enabled = masking_enabled,
                    !.target_cols = IF op \in { "on_row_description", "on_data_row" }
                                    THEN target_cols ELSE my_target_cols,
                    !.column_names = column_names, !.stats = stats, !.logs = logs ]

\* Anonymizer::on_row_description(msg)
RowDescription ==
    /\ calls < MaxCalls
    /\ \E fields \in UNION { [ 1..n -> ColumnNames ] : n \in 1..MaxCols } :
          /\ target_cols' = on_row_description(fields, rules)
          /\ lastCall' = [ Before("on_row_description") EXCEPT !.fields = fields ]
    /\ calls' = calls + 1
    /\ UNCHANGED << rules, masking_enabled, stats, logs, my_target_cols, column_names, edits, rowCalls >>
    /\ UNCHANGED notMask

\* Anonymizer::on_data_row(msg)
DataRow ==
    /\ calls < MaxCalls
    /\ rowCalls < MaxRowCalls
    /\ \E msg \in Rows :
          LET results == on_data_row(msg, target_cols, masking_enabled)
          IN  /\ stats' = RecordAll(stats, Changes(results))
              /\ logs' = LogsAfter(logs, "DataMasked", results)
              /\ lastCall' = [ Before("on_data_row") EXCEPT !.msg = msg, !.results = results ]
    /\ calls' = calls + 1
    /\ rowCalls' = rowCalls + 1
    /\ UNCHANGED << rules, masking_enabled, target_cols, my_target_cols, column_names, edits >>
    /\ UNCHANGED notMask

\* MySqlAnonymizer::on_column_definition(col)
ColumnDefinition ==
    /\ calls < MaxCalls
    /\ \E table \in TableNames, name \in ColumnNames :
          LET col == [ table |-> table, name |-> name ]
              after == on_column_definition(col, column_names, my_target_cols, rules)
          IN  /\ column_names' = after.column_names
              /\ my_target_cols' = after.target_cols
              /\ lastCall' = [ Before("on_column_definition") EXCEPT !.col = col ]
    /\ calls' = calls + 1
    /\ UNCHANGED << rules, masking_enabled, stats, logs, target_cols, edits, rowCalls >>
    /\ UNCHANGED notMask

\* MySqlAnonymizer::reset_columns()  (interceptor.rs:397-400)
ResetColumns ==
    /\ calls < MaxCalls
    /\ my_target_cols' = << >>
    /\ column_names' = << >>
    /\ lastCall' = Before("reset_columns")
    /\ calls' = calls + 1
    /\ UNCHANGED << rules, masking_enabled, stats, logs, target_cols, edits, rowCalls >>
    /\ UNCHANGED notMask

\* MySqlAnonymizer::on_result_row(row)
ResultRow ==
    /\ calls < MaxCalls
    /\ rowCalls < MaxRowCalls
    /\ \E row \in Rows :
          LET results == on_result_row(row, my_target_cols, masking_enabled)
          IN  /\ stats' = RecordAll(stats, Changes(results))
              /\ logs' = LogsAfter(logs, "MySqlDataMasked", results)
              /\ lastCall' = [ Before("on_result_row") EXCEPT !.msg = row, !.results = results ]
    /\ calls' = calls + 1
    /\ rowCalls' = rowCalls + 1
    /\ UNCHANGED << rules, masking_enabled, target_cols, my_target_cols, column_names, edits >>
    /\ UNCHANGED notMask

\* api.rs:239-247  add_rule: the rule is pushed at the end of the list
AddRule ==
    /\ edits < MaxEdits
    /\ \E rule \in RuleValues : rules' = Append(rules, rule)
    /\ edits' = edits + 1
    /\ UNCHANGED << masking_enabled, stats, logs, target_cols, my_target_cols,
                    column_names, calls, rowCalls, lastCall >>
    /\ UNCHANGED notMask

DeleteRuleAndForget ==
    /\ edits < MaxEdits
    /\ \E index \in 0..(Len(rules) - 1) :
          rules' = [ n \in 1..(Len(rules) - 1) |-> IF n <= index THEN rules[n] ELSE rules[n + 1] ]
    /\ target_cols' = << >>
    /\ edits' = edits + 1
    /\ UNCHANGED << masking_enabled, stats, logs, my_target_cols,
                    column_names, calls, rowCalls, lastCall >>
    /\ UNCHANGED notMask

\* api.rs:282-303  delete_rule by index
DeleteRule ==
    /\ edits < MaxEdits
    /\ \E index \in 0..(Len(rules) - 1) :
          rules' = [ n \in 1..(Len(rules) - 1) |-> IF n <= index THEN rules[n] ELSE rules[n + 1] ]
    /\ edits' = edits + 1
    /\ UNCHANGED << masking_enabled, stats, logs, target_cols, my_target_cols,
                    column_names, calls, rowCalls, lastCall >>
    /\ UNCHANGED notMask

\* api.rs:419-440  update_config
UpdateConfig ==
    /\ edits < MaxEdits
    /\ \E enabled \in BOOLEAN : masking_enabled' = enabled
    /\ edits' = edits + 1
    /\ UNCHANGED << rules, stats, logs, target_cols, my_target_cols,
                    column_names, calls, rowCalls, lastCall >>
    /\ UNCHANGED notMask

MaskNext ==
    \/ RowDescription
    \/ DataRow
    \/ ColumnDefinition
    \/ ResetColumns
    \/ ResultRow
    \/ AddRule
    \/ DeleteRule
    \/ UpdateConfig

SpecMask == MaskInit /\ [][MaskNext]_vars

(***************************************************************************)
(* The scanner at work: rows of text cells pass through the two row        *)
(* handlers of a connection, so that the cells of a column without a rule  *)
(* are handed to PiiScanner::scan.  The connection has no rule, or the     *)
(* rule {column: doc, strategy: json} and a result set whose first column  *)
(* is doc.                                                                 *)
(***************************************************************************)
ScanInit ==
    /\ AcceptIdle
    /\ LocksIdle
    /\ ConnIdle
    /\ HealthIdle
    /\ CodecIdle
    /\ StateIdle
    /\ rules \in { << >>, << Rule(None, "doc", "json") >> }
    /\ masking_enabled = TRUE
    /\ stats = [ n \in StatNames |-> 0 ]
    /\ logs = << >>
    /\ target_cols = on_row_description(IF rules = << >> THEN << >> ELSE << "doc" >>, rules)
    /\ my_target_cols = target_cols
    /\ column_names = IF rules = << >> THEN << >> ELSE << "doc" >>
    /\ calls = 0
    /\ rowCalls = 0
    /\ edits = 0
    /\ lastCall = NoCall

\* Anonymizer::on_data_row(msg) on a row of text cells
ScanDataRow ==
    /\ rowCalls < MaxRowCalls
    /\ \E msg \in ScanRows :
          \E results \in { on_data_row(msg, target_cols, masking_enabled) } :
              /\ stats' = RecordAll(stats, Changes(results))
              /\ logs' = LogsAfter(logs, "DataMasked", results)
              /\ lastCall' = [ Before("on_data_row") EXCEPT !.msg = msg, !.results = results ]
    /\ calls' = calls + 1
    /\ rowCalls' = rowCalls + 1
    /\ UNCHANGED << rules, masking_enabled, target_cols, my_target_cols, column_names, edits >>
    /\ UNCHANGED notMask

\* MySqlAnonymizer::on_result_row(row) on a row of text cells
ScanResultRow ==
    /\ rowCalls < MaxRowCalls
    /\ \E row \in ScanRows :
          \E results \in { on_result_row(row, my_target_cols, masking_enabled) } :
              /\ stats' = RecordAll(stats, Changes(results))
              /\ logs' = LogsAfter(logs, "MySqlDataMasked", results)
              /\ lastCall' = [ Before("on_result_row") EXCEPT !.msg = row, !.results = results ]
    /\ calls' = calls + 1
    /\ rowCalls' = rowCalls + 1
    /\ UNCHANGED << rules, masking_enabled, target_cols, my_target_cols, column_names, edits >>
    /\ UNCHANGED notMask

ScanNext == ScanDataRow \/ ScanResultRow

SpecScan == ScanInit /\ [][ScanNext]_vars

(***************************************************************************)
(* One connection task: the Postgres pipeline from the peek of the first   *)
(* bytes to the forwarding loop (main.rs:312-515), and the MySQL pipeline  *)
(* (main.rs:533-672), entered at its handshake or at its command loop with *)
(* both codecs in the state Command.  The client writes whole frames into  *)
(* clientBuf; upstream writes packets into upstreamIn.  Each branch of a   *)
(* select loop is one action: its handler runs to completion before the    *)
(* select is entered again.                                                *)
(***************************************************************************)
\* frames a Postgres client writes
PgClientFrames ==
    { << 0, 0, 0, 16, 0, 3, 0, 0, 117, 115, 101, 114, 0, 117, 0, 0 >>,   \* Startup 3.0 user=u
      << 0, 0, 0, 8, 4, 210, 22, 47 >>,                                 \* SSLRequest
      << 81, 0, 0, 0, 6, 115, 0 >>,                                     \* Query "s"
      << 80, 0, 0, 0, 14, 97, 0, 115, 0, 0, 1, 0, 0, 0, 23 >>,          \* Parse "a" "s" [23]
      << 66, 0, 0, 0, 8, 0, 0, 0, 0 >>,                                 \* Bind
      << 68, 0, 0, 0, 6, 80, 0 >>,                                      \* Describe portal ""
      << 69, 0, 0, 0, 9, 0, 0, 0, 0, 0 >>,                              \* Execute
      << 67, 0, 0, 0, 6, 83, 0 >>,                                      \* Close statement ""
      << 83, 0, 0, 0, 4 >> }                                            \* Sync

\* packets a MySQL client writes: COM_QUERY "s", COM_PING
MyClientPackets == { << 2, 0, 0, 0, 3, 115 >>, << 1, 0, 0, 0, 14 >> }

\* CLIENT_PROTOCOL_41 | CLIENT_SECURE_CONNECTION, and CLIENT_DEPRECATE_EOF
Caps41 == 512 + 32768
CapsDeprecateEof == 16777216

\* the HandshakeResponse41 of a client: capability flags, max packet size
\* 2^24, utf8, user "bob", a two-byte auth response, no database
HandshakeResponsePacket(capability_flags) ==
    Packet(1, PutLE(capability_flags, 4) \o << 0, 0, 0, 1, 33 >>
              \o << 0, 0, 0, 0, 0, 0, 0, 0, 0, 0, 0, 0, 0, 0, 0, 0, 0, 0, 0, 0, 0, 0, 0 >>
              \o << 98, 111, 98, 0, 2, 7, 8 >>)

\* frames a Postgres upstream writes
PgUpstreamFrames ==
    { UMsg("RowDescription", 0, << "email" >>, << >>, 0),
      UMsg("DataRow", 0, << >>, << Some(TextBytes("bob")), None >>, 0),
      UMsg("Regular", 90, << >>, << >>, 0),
      UMsg("Malformed", 0, << >>, << >>, 0) }

\* the result sets a MySQL server answers a query with: columns and rows
ResultSets ==
    << [ columns |-> << << "users", "email" >> >>,
         rows |-> << << Some(TextBytes("bob")) >>, << Some(TextBytes(SsnText)) >> >> ],
       [ columns |-> << << "orders", "doc" >>, << "orders", "email" >> >>,
         rows |-> << << None, Some(TextBytes("bob")) >> >> ] >>

\* the packets of result set rs, with or without the EOF after the columns
ResultSetPackets(rs, dep) ==
    LET set == ResultSets[rs]
    IN  << UMsg("header", Len(set.columns), << >>, << >>, rs) >>
        \o [ i \in 1..Len(set.columns) |-> UMsg("coldef", 0, set.columns[i], << >>, rs) ]
        \o (IF dep THEN << >> ELSE << UMsg("eof", 0, << >>, << >>, rs) >>)
        \o [ i \in 1..Len(set.rows) |-> UMsg("row", 0, << >>, set.rows[i], rs) ]
        \o << UMsg("eof", 0, << >>, << >>, rs) >>

\* what a server answers one query with: a result set, or two of them (a
\* statement that returns more than one)
Answers == { << 1 >>, << 2 >>, << 2, 1 >> }

AnswerPackets(answer, dep) ==
    Join([ n \in 1..Len(answer) |-> ResultSetPackets(answer[n], dep) ], << >>)

NoMsg == UMsg("none", 0, << >>, << >>, 0)

\* an item written to a socket: a "frame" (the image of the src-th frame
\* taken from the other side, as bytes or as a message) or a single "byte"
\* (the answer to the src-th frame taken from the client); src = 0 marks
\* what the proxy originates
Item(kind, byte, bytes, msg, src) ==
    [ kind |-> kind, byte |-> byte, bytes |-> bytes, msg |-> msg, src |-> src ]

\* a frame taken from the client: the bytes split off the buffer, how the
\* decode ended, the type decoded, and the codec mode it was decoded in
Taken(raw, st, type, startup) == [ raw |-> raw, st |-> st, type |-> type, startup |-> startup ]

SendFirst(out, item) == << item >> \o out
\* Framed::send / write_all: the item is written after everything before it
Send(out, item) == Append(out, item)

SendErrorPacket(out) ==
    Append(out, Item("frame", "", << >>, UMsg("ErrorResponse", 0, << >>, << >>, 0), 0))
\* "return Err(e)" / "?": the task ends, the sockets are dropped, nothing is written
CloseOnFailure(out) == out

SslIgnored(out, k) == out
\* main.rs:453-457  the SSLRequest arm of the forwarding loop:
\* client_framed.get_mut().write_all(b"N")
SslDenied(out, k) == Send(out, Item("byte", "N", << >>, NoMsg, k))

StartupCleared(startup, type) == FALSE
StartupKept(startup, type) == startup
\* postgres.rs:92-97, 122  is_startup after a message was decoded: cleared
\* by a StartupMessage, left alone by an SSLRequest
StartupAfter(startup, type) == startup /\ type # "Startup"

\* main.rs:455-466, 626-635  the entry logged for a query-carrying message
QueryLogEntry(event_type, query) ==
    [ event_type |-> event_type, content |-> query, details |-> << >> ]

ConnInit ==
    /\ AcceptIdle
    /\ LocksIdle
    /\ HealthIdle
    /\ CodecIdle
    /\ StateIdle
    /\ rules = << Rule(None, "email", "email") >>
    /\ masking_enabled = TRUE
    /\ stats = [ n \in StatNames |-> 0 ]
    /\ logs = << >>
    /\ target_cols = << >>
    /\ my_target_cols = << >>
    /\ column_names = << >>
    /\ calls = 0
    /\ rowCalls = 0
    /\ edits = 0
    /\ lastCall = NoCall
    /\ protocol \in { "postgres", "mysql" }
    /\ pc \in (IF protocol = "postgres" THEN { "peek" } ELSE { "phase1", "command" })
    /\ tls_acceptor \in (IF protocol = "postgres" THEN BOOLEAN ELSE { FALSE })
    /\ upstream_tls \in (IF protocol = "postgres" THEN BOOLEAN ELSE { FALSE })
    /\ is_startup = TRUE
    /\ my_state = [ state |-> IF pc = "command" THEN "Command" ELSE "WaitingHandshake",
                    remaining |-> 0, column_count |-> 0 ]
    /\ client_state = IF pc = "command" THEN "Command" ELSE "WaitingHandshake"
    /\ deprecate_eof \in (IF pc = "command" THEN BOOLEAN ELSE { FALSE })
    /\ clientBuf = << >>
    /\ clientWire = << >>
    /\ clientEof = FALSE
    \* a MySQL server greets as soon as the connection is made
    /\ upstreamIn \in (IF pc = "phase1"
                       THEN { << UMsg("handshake", flags, << >>, << >>, 0) >> :
                              flags \in { Caps41, Caps41 + CapsDeprecateEof } }
                       ELSE { << >> })
    /\ upstreamEof = FALSE
    /\ clientSent = 0
    /\ upstreamSent = 0
    /\ clientTaken = << >>
    /\ upstreamTaken = << >>
    /\ upOut = << >>
    /\ clOut = << >>

engineUnchanged == UNCHANGED << rules, masking_enabled, stats, logs, target_cols,
                                my_target_cols, column_names >>

\* the task is running
Running == pc \in { "peek", "connect", "loop", "phase1", "phase2", "phase3", "command" }

\* The client writes a frame; it arrives whole, or its first four bytes
\* arrive first and the rest later.
ClientSend ==
    /\ Running
    /\ ~clientEof
    /\ clientSent < MaxClientFrames
    /\ clientWire = << >>
    \* a MySQL client speaks after the greeting: it answers with its
    \* HandshakeResponse
    /\ pc # "phase1"
    /\ \E frame \in (IF protocol = "postgres" THEN PgClientFrames
                     ELSE IF pc = "command" THEN MyClientPackets
                     ELSE { HandshakeResponsePacket(flags) :
                            flags \in { Caps41, Caps41 + CapsDeprecateEof } }) :
       \E cut \in { 4, Len(frame) } :
          /\ clientBuf' = clientBuf \o Take(frame, cut)
          /\ clientWire' = Drop(frame, cut)
    /\ clientSent' = clientSent + 1
    /\ engineUnchanged
    /\ UNCHANGED << protocol, pc, tls_acceptor, upstream_tls, is_startup, my_state,
                    deprecate_eof, client_state, clientEof, upstreamIn, upstreamEof, upstreamSent,
                    clientTaken, upstreamTaken, upOut, clOut >>
    /\ UNCHANGED notConn

\* The rest of the frame arrives.
ClientDeliver ==
    /\ Running
    /\ clientWire # << >>
    /\ clientBuf' = clientBuf \o clientWire
    /\ clientWire' = << >>
    /\ engineUnchanged
    /\ UNCHANGED << protocol, pc, tls_acceptor, upstream_tls, is_startup, my_state,
                    deprecate_eof, client_state, clientEof, upstreamIn, upstreamEof, clientSent,
                    upstreamSent, clientTaken, upstreamTaken, upOut, clOut >>
    /\ UNCHANGED notConn

\* The client closes its side.
ClientClose ==
    /\ Running
    /\ ~clientEof
    /\ clientWire = << >>
    /\ clientEof' = TRUE
    /\ engineUnchanged
    /\ UNCHANGED << clientWire, protocol, pc, tls_acceptor, upstream_tls, is_startup, my_state,
                    deprecate_eof, client_state, clientBuf, upstreamIn, upstreamEof, clientSent,
                    upstreamSent, clientTaken, upstreamTaken, upOut, clOut >>
    /\ UNCHANGED notConn

\* A Postgres upstream writes a frame.
UpstreamSend ==
    /\ protocol = "postgres"
    /\ pc = "loop"
    /\ ~upstreamEof
    /\ upstreamSent < MaxUpstreamFrames
    /\ \E msg \in PgUpstreamFrames : upstreamIn' = Append(upstreamIn, msg)
    /\ upstreamSent' = upstreamSent + 1
    /\ engineUnchanged
    /\ UNCHANGED << clientWire, protocol, pc, tls_acceptor, upstream_tls, is_startup, my_state,
                    deprecate_eof, client_state, clientBuf, clientEof, upstreamEof, clientSent,
                    clientTaken, upstreamTaken, upOut, clOut >>
    /\ UNCHANGED notConn

\* Upstream closes its side.
UpstreamClose ==
    /\ pc \in { "loop", "phase1", "phase2", "phase3", "command" }
    /\ ~upstreamEof
    /\ upstreamEof' = TRUE
    /\ engineUnchanged
    /\ UNCHANGED << clientWire, protocol, pc, tls_acceptor, upstream_tls, is_startup, my_state,
                    deprecate_eof, client_state, clientBuf, clientEof, upstreamIn, clientSent,
                    upstreamSent, clientTaken, upstreamTaken, upOut, clOut >>
    /\ UNCHANGED notConn

\* main.rs:312-353  process_postgres_connection: peek at the first bytes;
\* an SSLRequest is read off the socket and answered 'S' (then the TLS
\* accept succeeds or fails) or 'N'
PgPeek ==
    /\ pc = "peek"
    /\ Len(clientBuf) > 0 \/ clientEof
    /\ LET n == IF Len(clientBuf) < 8 THEN Len(clientBuf) ELSE 8
           ssl == /\ n >= 8
                  /\ U32(SubSeq(clientBuf, 1, 4)) = 8
                  /\ U32(SubSeq(clientBuf, 5, 8)) = 80877103
           k == Len(clientTaken) + 1
       IN  IF ssl
           THEN /\ clientBuf' = Drop(clientBuf, 8)
                /\ clientTaken' = Append(clientTaken,
                                         Taken(Take(clientBuf, 8), "ok", "SSLRequest", TRUE))
                /\ IF tls_acceptor
                   THEN /\ clOut' = Send(clOut, Item("byte", "S", << >>, NoMsg, k))
                        /\ \E accepted_tls \in BOOLEAN :
                              pc' = IF accepted_tls THEN "connect" ELSE "failed"
                   ELSE /\ clOut' = Send(clOut, Item("byte", "N", << >>, NoMsg, k))
                        /\ pc' = "connect"
           ELSE /\ pc' = "connect"
                /\ UNCHANGED << clientBuf, clientTaken, clOut >>
    /\ engineUnchanged
    /\ UNCHANGED << clientWire, protocol, tls_acceptor, upstream_tls, is_startup, my_state,
                    deprecate_eof, client_state, clientEof, upstreamIn, upstreamEof, clientSent,
                    upstreamSent, upstreamTaken, upOut >>
    /\ UNCHANGED notConn

\* main.rs:369-429  handle_postgres_protocol: connect to upstream; with
\* upstream_tls, write an SSLRequest and upgrade when the answer is 'S'
PgConnect ==
    /\ pc = "connect"
    /\ \E outcome \in (IF upstream_tls THEN { "refused", "S", "S_failed", "N" }
                       ELSE { "refused", "connected" }) :
          /\ upOut' = IF upstream_tls /\ outcome # "refused"
                      THEN Send(upOut, Item("frame", "", PutU32(8) \o PutU32(80877103), NoMsg, 0))
                      ELSE upOut
          /\ pc' = IF outcome \in { "refused", "S_failed" } THEN "failed" ELSE "loop"
          /\ clOut' = IF outcome \in { "refused", "S_failed" } THEN CloseOnFailure(clOut)
                      ELSE clOut
    /\ engineUnchanged
    /\ UNCHANGED << clientWire, protocol, tls_acceptor, upstream_tls, is_startup, my_state,
                    deprecate_eof, client_state, clientBuf, clientEof, upstreamIn, upstreamEof,
                    clientSent, upstreamSent, clientTaken, upstreamTaken >>
    /\ UNCHANGED notConn

\* main.rs:448-491  the client branch of the select of
\* handle_postgres_protocol_inner
PgClientBranch ==
    /\ protocol = "postgres"
    /\ pc = "loop"
    /\ LET d == PostgresCodec_decode(clientBuf, is_startup)
           raw == Take(clientBuf, Len(clientBuf) - Len(d.rest))
           k == Len(clientTaken) + 1
       IN  IF d.st = "none"
           THEN \* Ok(None): the stream waits for bytes, or has ended
                /\ clientEof
                /\ pc' = IF Len(clientBuf) = 0 THEN "done" ELSE "failed"
                /\ clOut' = IF Len(clientBuf) = 0 THEN clOut ELSE CloseOnFailure(clOut)
                /\ UNCHANGED << clientBuf, clientTaken, upOut, is_startup, logs >>
           ELSE /\ clientBuf' = d.rest
                /\ clientTaken' = Append(clientTaken,
                                         Taken(raw, d.st, IF d.st = "ok" THEN d.v.type ELSE "",
                                               is_startup))
                /\ IF d.st = "panic"
                   THEN /\ pc' = "panicked"
                        /\ UNCHANGED << clOut, upOut, is_startup, logs >>
                   ELSE IF d.st = "err"
                   THEN /\ pc' = "failed"
                        /\ clOut' = CloseOnFailure(clOut)
                        /\ UNCHANGED << upOut, is_startup, logs >>
                   ELSE IF d.v.type = "SSLRequest"
                   THEN /\ clOut' = SslDenied(clOut, k)
                        /\ is_startup' = StartupAfter(is_startup, d.v.type)
                        /\ UNCHANGED << pc, upOut, logs >>
                   ELSE /\ logs' = IF d.v.type = "Query"
                                   THEN add_log(logs, QueryLogEntry("Query", d.v.parts[1]))
                                   ELSE IF d.v.type = "Parse"
                                   THEN add_log(logs, QueryLogEntry("Parse", d.v.parts[2]))
                                   ELSE logs
                        /\ upOut' = Send(upOut, Item("frame", "", PostgresCodec_encode(d.v), NoMsg, k))
                        /\ is_startup' = StartupAfter(is_startup, d.v.type)
                        /\ UNCHANGED << pc, clOut >>
    /\ UNCHANGED << rules, masking_enabled, stats, target_cols, my_target_cols, column_names >>
    /\ UNCHANGED << clientWire, protocol, tls_acceptor, upstream_tls, my_state, deprecate_eof, client_state,
                    clientEof, upstreamIn, upstreamEof, clientSent, upstreamSent,
                    upstreamTaken >>
    /\ UNCHANGED notConn

\* main.rs:493-512  the upstream branch of the select of
\* handle_postgres_protocol_inner
PgUpstreamBranch ==
    /\ protocol = "postgres"
    /\ pc = "loop"
    /\ IF Len(upstreamIn) = 0
       THEN /\ upstreamEof
            /\ pc' = "done"
            /\ UNCHANGED << upstreamIn, upstreamTaken, clOut, target_cols, stats, logs >>
       ELSE LET msg == Head(upstreamIn)
                k == Len(upstreamTaken) + 1
                results == on_data_row(msg.values, target_cols, masking_enabled)
            IN  /\ upstreamIn' = Tail(upstreamIn)
                /\ upstreamTaken' = Append(upstreamTaken, msg)
                /\ IF msg.type = "Malformed"
                   THEN /\ pc' = "failed"
                        /\ clOut' = CloseOnFailure(clOut)
                        /\ UNCHANGED << target_cols, stats, logs >>
                   ELSE IF msg.type = "RowDescription"
                   THEN /\ target_cols' = on_row_description(msg.names, rules)
                        /\ clOut' = Send(clOut, Item("frame", "", << >>, msg, k))
                        /\ UNCHANGED << pc, stats, logs >>
                   ELSE IF msg.type = "DataRow"
                   THEN /\ stats' = RecordAll(stats, Changes(results))
                        /\ logs' = LogsAfter(logs, "DataMasked", results)
                        /\ clOut' = Send(clOut, Item("frame", "", << >>, [ msg EXCEPT !.values = Values(results) ], k))
                        /\ UNCHANGED << pc, target_cols >>
                   ELSE /\ clOut' = Send(clOut, Item("frame", "", << >>, msg, k))
                        /\ UNCHANGED << pc, target_cols, stats, logs >>
    /\ UNCHANGED << rules, masking_enabled, my_target_cols, column_names >>
    /\ UNCHANGED << clientWire, protocol, tls_acceptor, upstream_tls, is_startup, my_state,
                    deprecate_eof, client_state, clientBuf, clientEof, upstreamEof, clientSent,
                    upstreamSent, clientTaken, upOut >>
    /\ UNCHANGED notConn

\* main.rs:549-617  phases 1 to 3 of handle_mysql_protocol: the greeting
\* from upstream is passed to the client, the client's HandshakeResponse to
\* upstream, the server's verdict to the client; set_capability_flags is
\* called on both codecs after phase 1 and in phase 2.  A server answers a
\* HandshakeResponse with OK.
MyHandshake ==
    /\ protocol = "mysql"
    /\ pc \in { "phase1", "phase2", "phase3" }
    /\ \E d \in { MySqlCodec_decode(clientBuf, client_state) },
          u \in { IF Len(upstreamIn) = 0 THEN [ st |-> "err", msg |-> NoMsg, state |-> my_state ]
                  ELSE MySqlCodec_decode_upstream(Head(upstreamIn), my_state, deprecate_eof) } :
       LET cur == [ pc |-> pc, my_state |-> my_state, client_state |-> client_state,
                    deprecate_eof |-> deprecate_eof, clientBuf |-> clientBuf,
                    clientTaken |-> clientTaken, upstreamIn |-> upstreamIn,
                    upstreamTaken |-> upstreamTaken, upOut |-> upOut, clOut |-> clOut ]
           \* upstream_framed.next() returned u
           pkt == Head(upstreamIn)
           ku == Len(upstreamTaken) + 1
           fromUpstream == [ cur EXCEPT !.upstreamIn = Tail(upstreamIn),
                                        !.upstreamTaken = Append(upstreamTaken, pkt),
                                        !.my_state = u.state ]
           toClient == Send(clOut, Item("frame", "", << >>, u.msg, ku))
           \* client_framed.next() returned d
           raw == Take(clientBuf, Len(clientBuf) - Len(d.rest))
           kc == Len(clientTaken) + 1
           Took(st, type) == [ cur EXCEPT !.clientBuf = d.rest,
                                          !.clientTaken = Append(clientTaken, Taken(raw, st, type, FALSE)) ]
           flags == d.v.msg.capability_flags
           next ==
               IF pc = "phase2"
               THEN IF d.st = "none"
                    THEN [ cur EXCEPT !.pc = IF Len(clientBuf) = 0 THEN "done" ELSE "failed",
                                      !.clOut = IF Len(clientBuf) = 0 THEN clOut
                                                ELSE CloseOnFailure(clOut) ]
                    ELSE IF d.st = "panic" THEN [ Took("panic", "") EXCEPT !.pc = "panicked" ]
                    ELSE IF d.st = "err"
                    THEN [ Took("err", "") EXCEPT !.pc = "failed", !.clOut = CloseOnFailure(clOut) ]
                    ELSE IF d.v.msg.type = "HandshakeResponse"
                    THEN [ Took("ok", "HandshakeResponse") EXCEPT
                               !.pc = "phase3",
                               !.client_state = d.v.state,
                               !.deprecate_eof = HasFlag(flags, 24),
                               !.upOut = Send(upOut, Item("frame", "",
                                                          MySqlCodec_encode_all(d.v.msg, flags),
                                                          NoMsg, kc)),
                               !.upstreamIn = Append(upstreamIn, UMsg("ok", 0, << >>, << >>, 0)) ]
                    \* "Protocol error: expected handshake response"
                    ELSE [ Took("rejected", d.v.msg.type) EXCEPT
                               !.pc = "failed",
                               !.client_state = d.v.state,
                               !.clOut = CloseOnFailure(clOut) ]
               ELSE IF Len(upstreamIn) = 0 THEN [ cur EXCEPT !.pc = "done" ]
               ELSE IF u.st = "err"
               THEN [ fromUpstream EXCEPT !.pc = "failed", !.clOut = CloseOnFailure(clOut) ]
               ELSE IF pc = "phase1"
               THEN IF u.msg.type = "Handshake"
                    THEN [ fromUpstream EXCEPT !.pc = "phase2", !.clOut = toClient,
                                               !.deprecate_eof = HasFlag(pkt.num, 24) ]
                    \* "Protocol error: expected handshake"
                    ELSE [ fromUpstream EXCEPT !.pc = "failed", !.clOut = CloseOnFailure(clOut) ]
               ELSE [ fromUpstream EXCEPT !.pc = IF u.msg.type = "Err" THEN "done" ELSE "command",
                                          !.clOut = toClient ]
       IN  \* the stream polled has a packet, or has ended
           /\ IF pc = "phase2" THEN d.st # "none" \/ clientEof
              ELSE Len(upstreamIn) > 0 \/ upstreamEof
           /\ \E after \in { next } :
                 /\ pc' = after.pc
                 /\ my_state' = after.my_state
                 /\ client_state' = after.client_state
                 /\ deprecate_eof' = after.deprecate_eof
                 /\ clientBuf' = after.clientBuf
                 /\ clientTaken' = after.clientTaken
                 /\ upstreamIn' = after.upstreamIn
                 /\ upstreamTaken' = after.upstreamTaken
                 /\ upOut' = after.upOut
                 /\ clOut' = after.clOut
    /\ engineUnchanged
    /\ UNCHANGED << clientWire, protocol, tls_acceptor, upstream_tls, is_startup, clientEof,
                    upstreamEof, clientSent, upstreamSent >>
    /\ UNCHANGED notConn

\* main.rs:622-641  the client branch of the select of handle_mysql_protocol
\* a server answers a forwarded query with one or two result sets and any
\* other command with OK
MyClientBranch ==
    /\ protocol = "mysql"
    /\ pc = "command"
    /\ \E d \in { MySqlCodec_decode(clientBuf, client_state) } :
       LET raw == Take(clientBuf, Len(clientBuf) - Len(d.rest))
           k == Len(clientTaken) + 1
       IN  IF d.st = "none"
           THEN /\ clientEof
                /\ pc' = IF Len(clientBuf) = 0 THEN "done" ELSE "failed"
                /\ clOut' = IF Len(clientBuf) = 0 THEN clOut ELSE CloseOnFailure(clOut)
                /\ UNCHANGED << clientBuf, clientTaken, upOut, upstreamIn, logs,
                                my_target_cols, column_names, client_state >>
           ELSE /\ clientBuf' = d.rest
                /\ client_state' = d.v.state
                /\ clientTaken' = Append(clientTaken, Taken(raw, "ok", d.v.msg.type, FALSE))
                /\ upOut' = Send(upOut, Item("frame", "", MySqlCodec_encode(d.v.msg), NoMsg, k))
                /\ IF d.v.msg.type = "Query"
                   THEN /\ logs' = add_log(logs, QueryLogEntry("MySqlQuery", d.v.msg.payload))
                        \* interceptor.reset_columns()
                        /\ my_target_cols' = << >>
                        /\ column_names' = << >>
                        /\ \E answer \in Answers :
                              upstreamIn' = upstreamIn \o AnswerPackets(answer, deprecate_eof)
                   ELSE /\ upstreamIn' = Append(upstreamIn, UMsg("ok", 0, << >>, << >>, 0))
                        /\ UNCHANGED << logs, my_target_cols, column_names >>
                /\ UNCHANGED << pc, clOut >>
    /\ UNCHANGED << rules, masking_enabled, stats, target_cols >>
    /\ UNCHANGED << clientWire, protocol, tls_acceptor, upstream_tls, is_startup, my_state,
                    deprecate_eof, clientEof, upstreamEof, clientSent, upstreamSent,
                    upstreamTaken >>
    /\ UNCHANGED notConn

\* main.rs:643-669  the upstream branch of the select of handle_mysql_protocol
MyUpstreamBranch ==
    /\ protocol = "mysql"
    /\ pc = "command"
    /\ IF Len(upstreamIn) = 0
       THEN /\ upstreamEof
            /\ pc' = "done"
            /\ UNCHANGED << upstreamIn, upstreamTaken, clOut, my_state, my_target_cols,
                            column_names, stats, logs >>
       ELSE LET pkt == Head(upstreamIn)
                k == Len(upstreamTaken) + 1
                d == MySqlCodec_decode_upstream(pkt, my_state, deprecate_eof)
                col == [ table |-> pkt.names[1], name |-> pkt.names[2] ]
                after == on_column_definition(col, column_names, my_target_cols, rules)
                results == on_result_row(d.msg.values, my_target_cols, masking_enabled)
            IN  /\ upstreamIn' = Tail(upstreamIn)
                /\ upstreamTaken' = Append(upstreamTaken, pkt)
                /\ my_state' = d.state
                /\ IF d.st = "err"
                   THEN /\ pc' = "failed"
                        /\ clOut' = CloseOnFailure(clOut)
                        /\ UNCHANGED << my_target_cols, column_names, stats, logs >>
                   ELSE IF d.msg.type = "ColumnDefinition"
                   THEN /\ column_names' = after.column_names
                        /\ my_target_cols' = after.target_cols
                        /\ clOut' = Send(clOut, Item("frame", "", << >>, d.msg, k))
                        /\ UNCHANGED << pc, stats, logs >>
                   ELSE IF d.msg.type = "ResultRow"
                   THEN /\ stats' = RecordAll(stats, Changes(results))
                        /\ logs' = LogsAfter(logs, "MySqlDataMasked", results)
                        /\ clOut' = Send(clOut, Item("frame", "", << >>, [ d.msg EXCEPT !.values = Values(results) ], k))
                        /\ UNCHANGED << pc, my_target_cols, column_names >>
                   ELSE /\ clOut' = Send(clOut, Item("frame", "", << >>, d.msg, k))
                        /\ UNCHANGED << pc, my_target_cols, column_names, stats, logs >>
    /\ UNCHANGED << rules, masking_enabled, target_cols >>
    /\ UNCHANGED << clientWire, protocol, tls_acceptor, upstream_tls, is_startup, deprecate_eof, client_state,
                    clientBuf, clientEof, upstreamEof, clientSent, upstreamSent,
                    clientTaken, upOut >>
    /\ UNCHANGED notConn

ConnNext ==
    \/ ClientSend
    \/ ClientDeliver
    \/ ClientClose
    \/ UpstreamSend
    \/ UpstreamClose
    \/ PgPeek
    \/ PgConnect
    \/ PgClientBranch
    \/ PgUpstreamBranch
    \/ MyHandshake
    \/ MyClientBranch
    \/ MyUpstreamBranch

SpecConn == ConnInit /\ [][ConnNext]_vars

(***************************************************************************)
(* Upstream health tracking: AppState::update_health_status, called with   *)
(* the result of each probe (state.rs:280-316).                            *)
(***************************************************************************)
AboveThreshold(count, threshold) == count > threshold

\* state.rs:309, 312  "consecutive_failures >= unhealthy_threshold"
ReachedThreshold(count, threshold) == count >= threshold

\* state.rs:291-315  the health record after a probe result
update_health_status(status, healthy, unhealthy, recovered) ==
    LET failures == IF healthy THEN 0 ELSE status.consecutive_failures + 1
        successes == IF healthy THEN status.consecutive_successes + 1 ELSE 0
    IN  [ healthy |-> IF ReachedThreshold(failures, unhealthy) THEN FALSE
                      ELSE IF ReachedThreshold(successes, recovered) THEN TRUE
                      ELSE status.healthy,
          consecutive_failures |-> failures,
          consecutive_successes |-> successes ]

\* The thresholds are u32 fields of the health_check section; nothing
\* restricts them to be positive.
HealthInit ==
    /\ AcceptIdle
    /\ LocksIdle
    /\ MaskIdle
    /\ ConnIdle
    /\ CodecIdle
    /\ StateIdle
    /\ health_status = [ healthy |-> TRUE, consecutive_failures |-> 0,
                         consecutive_successes |-> 0 ]
    /\ upstream_healthy = TRUE
    /\ unhealthy_threshold \in 0..MaxThreshold
    /\ healthy_threshold \in 0..MaxThreshold
    /\ probes = 0
    /\ lastProbe = [ healthy |-> TRUE, before |-> TRUE ]

\* One call of update_health_status(healthy, latency_ms, error): the record
\* is updated under its write lock, and the atomic bit is stored in the
\* branch that sets the flag.
Probe ==
    /\ probes < MaxProbes
    /\ \E healthy \in BOOLEAN :
          LET after == update_health_status(health_status, healthy,
                                            unhealthy_threshold, healthy_threshold)
          IN  /\ health_status' = after
              /\ upstream_healthy' =
                    IF ReachedThreshold(after.consecutive_failures, unhealthy_threshold)
                    THEN FALSE
                    ELSE IF ReachedThreshold(after.consecutive_successes, healthy_threshold)
                    THEN TRUE
                    ELSE upstream_healthy
              /\ lastProbe' = [ healthy |-> healthy, before |-> health_status.healthy ]
    /\ probes' = probes + 1
    /\ UNCHANGED << unhealthy_threshold, healthy_threshold >>
    /\ UNCHANGED notHealth

SpecHealth == HealthInit /\ [][Probe]_vars

(***************************************************************************)
(* One codec on its own, driven as tokio_util's Framed drives it: bytes    *)
(* arrive in chunks, decode runs on the read buffer, and the message it    *)
(* returns is handed to encode before the next decode.  The input is       *)
(* either a byte stream or a message to encode first.                      *)
(***************************************************************************)

\* Decoder::decode of either codec: outcome, message, what stays in the
\* buffer and the codec afterwards
Codec_decode(c, buf) ==
    IF c.protocol = "postgres"
    THEN Value({ [ st |-> d.st, msg |-> d.v, rest |-> d.rest,
                   codec |-> IF d.st = "ok"
                             THEN [ c EXCEPT !.is_startup = StartupAfter(c.is_startup, d.v.type) ]
                             ELSE c ] :
                 d \in { PostgresCodec_decode(buf, c.is_startup) } })
    ELSE IF c.is_client_side
    THEN Value({ [ st |-> d.st, msg |-> IF d.st = "none" THEN << >> ELSE d.v.msg,
                   rest |-> d.rest, codec |-> IF d.st = "none" THEN c ELSE d.v.codec ] :
                 d \in { MySqlCodec_decode_client(buf, c) } })
    ELSE Value({ [ st |-> d.st, msg |-> IF d.st = "none" THEN << >> ELSE d.v.msg,
                   rest |-> d.rest,
                   codec |-> IF d.st = "none" THEN c
                             ELSE IF d.st = "ok" /\ d.v.msg.type = "HandshakeResponse"
                             THEN [ c EXCEPT !.state = d.v.state,
                                             !.capability_flags = d.v.msg.capability_flags ]
                             ELSE [ c EXCEPT !.state = d.v.state ] ] :
                 d \in { MySqlCodec_decode(buf, c.state) } })

\* Encoder::encode of either codec
Codec_encode(c, item) ==
    IF c.protocol = "postgres" THEN PostgresCodec_encode(item)
    ELSE MySqlCodec_encode_all(item, c.capability_flags)

\* main.rs:567-573  set_capability_flags(handshake.capability_flags) once
\* the handshake has been passed on
AfterSend(c, item) ==
    IF c.protocol = "mysql" /\ item.type = "Handshake"
    THEN [ c EXCEPT !.capability_flags = item.capability_flags ]
    ELSE c

(***************************************************************************)
(* Inputs.                                                                 *)
(***************************************************************************)
\* complete Postgres frames that are malformed: a startup parameter without
\* its terminator, startup length prefixes of 4 and 0, then regular frames
PgMalformedFrames ==
    { << 0, 0, 0, 10, 0, 3, 0, 0, 117, 97 >>,
      << 0, 0, 0, 4 >>,
      << 0, 0, 0, 0 >>,
      << 81, 0, 0, 0, 5, 97 >>,                          \* no terminator
      << 90, 0, 0, 0, 3 >>,                              \* length prefix below 4
      << 68, 0, 0, 0, 6, 0, 1 >>,                        \* count beyond the payload
      << 68, 0, 0, 0, 11, 0, 1, 0, 0, 0, 5, 120 >>,      \* cell length beyond the payload
      << 68, 0, 0, 0, 10, 0, 1, 255, 255, 255, 254 >>,   \* cell length -2
      << 84, 0, 0, 0, 8, 0, 1, 97, 0 >>,                 \* field cut short
      << 80, 0, 0, 0, 10, 115, 0, 113, 0, 0, 2 >> }      \* count beyond the payload

\* complete Postgres frames of the startup phase: SSLRequest, StartupMessage
\* and the malformed ones
PgStartupFrames ==
    { << 0, 0, 0, 8, 4, 210, 22, 47 >>,
      << 0, 0, 0, 13, 0, 3, 0, 0, 117, 0, 97, 0, 0 >> }
    \cup { f \in PgMalformedFrames : f[1] = 0 }

\* complete regular Postgres frames: Query, Parse, RowDescription, DataRow,
\* ReadyForQuery and the malformed ones
PgRegularFrames ==
    { << 81, 0, 0, 0, 6, 97, 0 >>,
      << 80, 0, 0, 0, 14, 115, 0, 113, 0, 0, 1, 0, 0, 0, 23 >>,
      << 84, 0, 0, 0, 26, 0, 1, 97, 0, 0, 0, 0, 1, 0, 1, 0, 0, 0, 25, 255, 255,
         255, 255, 255, 255, 0, 0 >>,
      << 68, 0, 0, 0, 15, 0, 2, 0, 0, 0, 1, 120, 255, 255, 255, 255 >>,
      << 90, 0, 0, 0, 5, 73 >> }
    \cup { f \in PgMalformedFrames : f[1] # 0 }

\* PgMessage values handed to encode; the last five are values decode never
\* returns
PgMessageValues ==
    { PgMessage("Startup", 196608, << << 117 >>, << 97 >> >>, << >>),
      PgMessage("Startup", 196608, << >>, << >>),
      PgMessage("SSLRequest", 0, << >>, << >>),
      PgMessage("Query", 0, << << 97 >> >>, << >>),
      PgMessage("Query", 0, << << >> >>, << >>),
      PgMessage("Parse", 0, << << 115 >>, << 113 >> >>, << 23 >>),
      PgMessage("RowDescription", 0, << << 97 >> >>, << 1, 1, 25, 65535, -1, 0 >>),
      PgMessage("RowDescription", 0, << >>, << >>),
      PgMessage("DataRow", 0, << Some(<< 120 >>), None, Some(<< >>) >>, << >>),
      PgMessage("DataRow", 0, << >>, << >>),
      PgMessage("Regular", 90, << << 73 >> >>, << >>),
      PgMessage("Regular", 67, << << >> >>, << >>),
      PgMessage("Query", 0, << << 97, 0, 98 >> >>, << >>),
      PgMessage("Startup", 196608, << << >>, << 97 >> >>, << >>),
      PgMessage("Startup", 80877103, << >>, << >>),
      PgMessage("Regular", 68, << << 0, 1 >> >>, << >>),
      PgMessage("Regular", 81, << << 97 >> >>, << >>) }

\* HandshakeV10 from a server: sequence id, the two halves of the
\* capability flags, auth_plugin_data_len and what follows the reserved bytes
HandshakeBytes(sequence_id, lower, upper, auth_len, tail) ==
    Packet(sequence_id,
           << 10, 56, 0, 1, 0, 0, 0, 1, 2, 3, 4, 5, 6, 7, 8, 0 >> \o lower \o << 33, 2, 0 >>
           \o upper \o << auth_len, 0, 0, 0, 0, 0, 0, 0, 0, 0, 0 >> \o tail)

Salt2 == << 9, 10, 11, 12, 13, 14, 15, 16, 17, 18, 19, 20, 0 >>

\* the packets of a session with a MySQL server, in the order it sends them
MyServerSessions ==
    LET ok == Packet(2, << 0, 0, 0, 2, 0, 0, 0 >>)
        header == Packet(1, << 1 >>)
        coldef == Packet(2, << 3, 100, 101, 102, 0, 1, 116, 1, 116, 1, 99, 1, 99,
                               12, 33, 0, 10, 0, 0, 0, 253, 0, 0, 0, 0, 0 >>)
        eof == Packet(3, << 254, 0, 0, 2, 0 >>)
        row == Packet(4, << 1, 97 >>)
        null_row == Packet(5, << 251 >>)
        deprecate == HandshakeBytes(0, << 0, 130 >>, << 8, 1 >>, 21, Salt2 \o << 120, 0 >>)
        header2 == Packet(1, << 2 >>)
        coldef2 == Packet(3, << 3, 100, 101, 102, 0, 1, 116, 1, 116, 1, 100, 1, 100,
                                12, 33, 0, 10, 0, 0, 0, 253, 0, 0, 0, 0, 0 >>)
        modern(seq) == HandshakeBytes(seq, << 0, 130 >>, << 8, 0 >>, 21, Salt2 \o << 120, 0 >>)
    IN  { \* protocol 4.1 with the result set closed by EOF packets
          << modern(0), ok, header, coldef, eof, row, null_row, Packet(6, << 254, 0, 0, 2, 0 >>) >>,
          \* CLIENT_DEPRECATE_EOF: no EOF after the columns, an OK packet with
          \* header 0xfe after the rows
          << HandshakeBytes(0, << 0, 130 >>, << 8, 1 >>, 21, Salt2 \o << 120, 0 >>),
             ok, header, coldef, row, Packet(4, << 254, 0, 0, 2, 0, 0, 0 >>) >>,
          \* two columns; the second row starts with an empty string
          << modern(0), ok, header2, coldef, coldef2, Packet(4, << 254, 0, 0, 2, 0 >>),
             Packet(5, << 1, 97, 251 >>), Packet(6, << 0, 1, 98 >>),
             Packet(7, << 254, 0, 0, 2, 0 >>), ok >>,
          << deprecate, ok, header2, coldef, coldef2, Packet(4, << 1, 97, 251 >>),
             Packet(5, << 0, 5, 98, 99, 100, 101, 102 >>),
             Packet(6, << 254, 0, 0, 2, 0, 0, 0 >>), ok >>,
          \* a row cut short after its first value
          << modern(0), ok, header2, coldef, coldef2, Packet(4, << 254, 0, 0, 2, 0 >>),
             Packet(5, << 1, 97 >>), Packet(6, << 254, 0, 0, 2, 0 >>) >>,
          \* the header of a result set of 1000 columns and its first column
          << modern(0), ok, Packet(1, << 252, 232, 3 >>), coldef >>,
          \* access denied, the message in latin1 ("Acc" e-grave "s")
          << modern(0), Packet(2, << 255, 21, 4, 35, 50, 56, 48, 48, 48, 65, 99, 99, 232, 115 >>) >>,
          \* an error to a command, then an OK with a message
          << modern(0), ok, Packet(1, << 255, 40, 4, 35, 52, 50, 48, 48, 48, 110, 111 >>),
             Packet(1, << 0, 252, 44, 1, 5, 2, 0, 1, 0, 111, 107 >>) >>,
          \* a server without CLIENT_SECURE_CONNECTION, and the one-byte EOF of
          \* the protocol before 4.1
          << HandshakeBytes(0, << 0, 0 >>, << 0, 0 >>, 0, << >>), ok, Packet(1, << 254 >>) >>,
          \* the greeting carried with sequence id 1
          << modern(1), ok >>,
          \* a greeting cut short and a column definition cut short
          << Packet(0, << 10, 56, 0, 1, 0 >>) >>,
          << modern(0), ok, header, Packet(2, << 3, 100, 101, 102, 0 >>) >> }

\* packets a MySQL client writes: COM_QUERY, COM_PING, an empty packet
MyClientStreams ==
    LET packets == { << 2, 0, 0, 0, 3, 115 >>, << 1, 0, 0, 7, 14 >>, << 0, 0, 0, 1 >> }
    IN  packets \cup { a \o b : a \in packets, b \in packets }

\* what a codec is given: a codec as constructed, messages to encode and
\* bytes already on the wire
CodecInputs ==
    LET Raw(c, bytes) == [ codec |-> c, queue |-> << >>, bytes |-> bytes ]
        Streams(frames) ==
            UNION { { Join(s, << >>) : s \in [ 1..n -> frames ] } : n \in 1..MaxStreamFrames }
    IN  { Raw(NewCodec("postgres", FALSE), b) :
            b \in Streams(PgStartupFrames) \cup
                  { a \o b2 : a \in PgStartupFrames, b2 \in PgRegularFrames } }
        \cup { Raw(NewCodec("postgres", TRUE), b) : b \in Streams(PgRegularFrames) }
        \cup { [ codec |-> NewCodec("postgres", m.type \notin { "Startup", "SSLRequest" }),
                 queue |-> << m >>, bytes |-> << >> ] : m \in PgMessageValues }
        \cup { Raw(NewCodec("mysql", TRUE), Join(s, << >>)) : s \in MyServerSessions }
        \cup { Raw(NewCodec("mysql", FALSE), b) : b \in MyClientStreams }

CodecInit ==
    /\ AcceptIdle
    /\ LocksIdle
    /\ MaskIdle
    /\ ConnIdle
    /\ HealthIdle
    /\ StateIdle
    /\ \E input \in CodecInputs :
          /\ codec = input.codec
          /\ codecQueue = input.queue
          /\ codecWire = input.bytes
          /\ codecFed = [ codec |-> input.codec, sent |-> << >>, bytes |-> input.bytes ]
    /\ codecBuf = << >>
    /\ codecOut = << >>
    /\ codecEcho = << >>
    /\ lastDecode = NoDecode

\* the codec returned an error or the task panicked: Framed is not polled again
CodecDead == Len(codecOut) > 0 /\ codecOut[Len(codecOut)].st # "ok"

\* the handshake was passed on and its flags are not yet in the codec
FlagsPending ==
    /\ Len(codecOut) > 0
    /\ Len(codecEcho) = Len(codecOut)
    /\ codecOut[Len(codecOut)].st = "ok"
    /\ AfterSend(codec, codecOut[Len(codecOut)].msg) # codec

\* Encoder::encode of a message of the input, written to the socket
Emit ==
    /\ codecQueue # << >>
    /\ LET bytes == Codec_encode(codec, Head(codecQueue))
       IN  /\ codecWire' = codecWire \o bytes
           /\ codecFed' = [ codecFed EXCEPT !.sent = Append(@, Head(codecQueue)),
                                           !.bytes = @ \o bytes ]
    /\ codecQueue' = Tail(codecQueue)
    /\ UNCHANGED << codec, codecBuf, codecOut, codecEcho, lastDecode >>
    /\ UNCHANGED notCodec

\* a read of the socket: one byte, or all that is there
Deliver ==
    /\ codecWire # << >>
    /\ \E n \in { 1, Len(codecWire) } :
          /\ codecBuf' = codecBuf \o Take(codecWire, n)
          /\ codecWire' = Drop(codecWire, n)
    /\ UNCHANGED << codec, codecQueue, codecOut, codecEcho, codecFed, lastDecode >>
    /\ UNCHANGED notCodec

\* Decoder::decode on the read buffer
Decode ==
    /\ ~CodecDead
    /\ Len(codecEcho) = Len(codecOut)
    /\ ~FlagsPending
    /\ \E d \in { Codec_decode(codec, codecBuf) } :
           /\ lastDecode' = [ st |-> d.st, before |-> codecBuf, after |-> d.rest,
                              codecBefore |-> codec, codecAfter |-> d.codec ]
           /\ codecBuf' = d.rest
           /\ codec' = d.codec
           /\ codecOut' =
                 IF d.st = "none" THEN codecOut
                 ELSE Append(codecOut,
                             [ st |-> d.st, msg |-> d.msg,
                               raw |-> Take(codecBuf, Len(codecBuf) - Len(d.rest)),
                               capability_flags |-> d.codec.capability_flags,
                               state |-> d.codec.state,
                               column_count |-> d.codec.column_count ])
    /\ UNCHANGED << codecQueue, codecWire, codecEcho, codecFed >>
    /\ UNCHANGED notCodec

\* Encoder::encode of the message decode returned last (main.rs:555, 604,
\* 666: what the proxy does with a message it leaves alone)
Reencode ==
    /\ ~CodecDead
    /\ Len(codecEcho) < Len(codecOut)
    /\ codecEcho' = Append(codecEcho,
                           [ bytes |-> Codec_encode(codec, codecOut[Len(codecOut)].msg),
                             capability_flags |-> codec.capability_flags ])
    /\ UNCHANGED << codec, codecQueue, codecWire, codecBuf, codecOut, codecFed, lastDecode >>
    /\ UNCHANGED notCodec

\* main.rs:567-573  set_capability_flags
SetCapabilityFlags ==
    /\ FlagsPending
    /\ codec' = AfterSend(codec, codecOut[Len(codecOut)].msg)
    /\ UNCHANGED << codecQueue, codecWire, codecBuf, codecOut, codecEcho, codecFed, lastDecode >>
    /\ UNCHANGED notCodec

CodecNext == Emit \/ Deliver \/ Decode \/ Reencode \/ SetCapabilityFlags

SpecCodec == CodecInit /\ [][CodecNext]_vars

RECURSIVE DecodeAll(_, _, _)
\* Framed polled on a buffer that holds the whole stream at once: the
\* outcomes in order, the codec and the buffer at the end
DecodeAll(c, buf, out) ==
    Value({ LET entry == [ st |-> d.st, msg |-> d.msg,
                           raw |-> Take(buf, Len(buf) - Len(d.rest)),
                           capability_flags |-> d.codec.capability_flags,
                           state |-> d.codec.state,
                           column_count |-> d.codec.column_count ]
            IN  IF d.st = "none" THEN [ out |-> out, codec |-> c, rest |-> buf ]
                ELSE IF d.st # "ok"
                THEN [ out |-> Append(out, entry), codec |-> d.codec, rest |-> d.rest ]
                ELSE DecodeAll(AfterSend(d.codec, d.msg), d.rest, Append(out, entry)) :
            d \in { Codec_decode(c, buf) } })

(***************************************************************************)
(* The length-encoded integers of the MySQL protocol on their own: a value *)
(* is written by write_lenenc_int and the bytes are read back by           *)
(* read_lenenc_int, alone or followed by more bytes of the payload; or     *)
(* read_lenenc_int is given a buffer as it comes off the wire.  Values are *)
(* below 2^31, the integers of the model.                                  *)
(***************************************************************************)
\* the values written: every value up to MaxLenenc, and both sides of the
\* borders of the forms
LenencValues ==
    0..MaxLenenc \cup { 65535, 65536, 65537, 16777215, 16777216, 16777217, 2147483647 }

\* buffers off the wire: empty, the marker 0xff, the NULL marker, and forms
\* cut short or whole
LenencBuffers ==
    { << >>, << 255 >>, << 255, 1, 2, 3, 4, 5, 6, 7, 8 >>, << 251 >>, << 251, 1 >>,
      << 252 >>, << 252, 1 >>, << 252, 1, 2 >>,
      << 253 >>, << 253, 1, 2 >>, << 253, 1, 2, 3 >>,
      << 254 >>, << 254, 1, 2, 3, 4, 5, 6, 7 >>, << 254, 1, 2, 3, 4, 0, 0, 0, 0 >>,
      << 250 >>, << 7, 252 >> }

LenencInit ==
    /\ AcceptIdle
    /\ LocksIdle
    /\ MaskIdle
    /\ ConnIdle
    /\ HealthIdle
    /\ StateIdle
    /\ codec = NewCodec("mysql", FALSE)
    /\ \/ codecQueue \in { << v >> : v \in LenencValues } /\ codecBuf = << >>
       \/ codecQueue = << >> /\ codecBuf \in LenencBuffers
    /\ codecWire = << >>
    /\ codecOut = << >>
    /\ codecEcho = << >>
    /\ codecFed = [ codec |-> codec, sent |-> codecQueue, bytes |-> codecBuf ]
    /\ lastDecode = NoDecode

\* write_lenenc_int(dst, val), then the rest of the payload, if any
WriteLenenc ==
    /\ codecQueue # << >>
    /\ \E more \in { << >>, << 254 >>, << 1, 2 >> } :
          /\ codecBuf' = write_lenenc_int(Head(codecQueue)) \o more
          /\ codecFed' = [ codecFed EXCEPT !.bytes = write_lenenc_int(Head(codecQueue)) ]
    /\ codecQueue' = << >>
    /\ UNCHANGED << codec, codecWire, codecOut, codecEcho, lastDecode >>
    /\ UNCHANGED notCodec

\* read_lenenc_int(buf): the value and the number of bytes consumed, or Err
ReadLenenc ==
    /\ codecQueue = << >>
    /\ codecOut = << >>
    /\ \E d \in { read_lenenc_int(codecBuf) } :
          codecOut' = << [ st |-> d.st, v |-> d.v, consumed |-> Len(codecBuf) - Len(d.rest),
                           buf |-> codecBuf ] >>
    /\ UNCHANGED << codec, codecQueue, codecWire, codecBuf, codecEcho, codecFed, lastDecode >>
    /\ UNCHANGED notCodec

LenencNext == WriteLenenc \/ ReadLenenc

SpecLenenc == LenencInit /\ [][LenencNext]_vars

(***************************************************************************)
(* The state the tasks share (state.rs): connection tasks append to the    *)
(* log ring under its write lock; the management API reloads the           *)
(* configuration from the file at config_path while readers take the       *)
(* config under a read guard.                                              *)
(***************************************************************************)
\* what the file at config_path can hold: nothing (the file is gone), text
\* that is not YAML, or a YAML document with or without the keys
\* masking_enabled and rules
ConfigFile(exists, yaml, enabled, rule_list) ==
    [ exists |-> exists, yaml |-> yaml, masking_enabled |-> enabled, rules |-> rule_list ]

ConfigFiles ==
    { ConfigFile(FALSE, FALSE, None, None),
      ConfigFile(TRUE, FALSE, None, None),
      ConfigFile(TRUE, TRUE, Some(FALSE), None),
      ConfigFile(TRUE, TRUE, Some(TRUE), Some(<< Rule(None, "email", "email") >>)),
      ConfigFile(TRUE, TRUE, Some(FALSE), Some(<< Rule(None, "doc", "json") >>)),
      ConfigFile(TRUE, TRUE, None, Some(<< >>)) }

\* config.rs:6-18, 78-82  AppConfig::load: read_to_string, then
\* serde_yaml::from_str; masking_enabled defaults to true, rules has no default
AppConfig_load(file) ==
    IF ~file.exists THEN Parsed("err", "io", << >>)
    ELSE IF ~file.yaml \/ IsNone(file.rules) THEN Parsed("err", "yaml", << >>)
    ELSE Parsed("ok", AppConfig(IF IsSome(file.masking_enabled)
                                THEN Unwrap(file.masking_enabled) ELSE TRUE,
                                Unwrap(file.rules)),
                << >>)

\* the shared config as one value
Config == AppConfig(masking_enabled, rules)

ResetToDefault(config) == AppConfig(TRUE, << >>)
\* state.rs:324-325  "map_err(..)?": reload_config returns before it asks
\* for the write guard, the config stays as it is
AfterFailedLoad(config) == config

\* interceptor.rs:180, 207, 410, 428  config.read().await: a reader gets its
\* guard only while no writer holds the lock
CanRead(lock) == lock = "free"

\* main.rs:455-466  the entry a connection logs; n stands for its query
LogEntry(n) == [ event_type |-> "Query", content |-> n, details |-> << >> ]

StateInit ==
    /\ AcceptIdle
    /\ LocksIdle
    /\ ConnIdle
    /\ HealthIdle
    /\ CodecIdle
    /\ stats = [ n \in StatNames |-> 0 ]
    /\ target_cols = << >>
    /\ my_target_cols = << >>
    /\ column_names = << >>
    /\ calls = 0
    /\ rowCalls = 0
    /\ edits = 0
    /\ lastCall = NoCall
    /\ logs = << >>
    /\ log_pc = [ c \in LogTasks |-> "idle" ]
    /\ appended = 0
    \* the proxy starts from a file that loads
    /\ config_file \in { f \in ConfigFiles : AppConfig_load(f).st = "ok" }
    /\ masking_enabled = AppConfig_load(config_file).v.masking_enabled
    /\ rules = AppConfig_load(config_file).v.rules
    /\ config_lock = "free"
    /\ reload_pc = "idle"
    /\ new_config = Config
    /\ lastReload = [ result |-> "none", file |-> config_file, before |-> Config,
                      after |-> Config ]
    /\ observed = Config

configUnchanged == UNCHANGED << rules, masking_enabled, config_file, config_lock, reload_pc,
                                new_config, lastReload, observed >>

\* state.rs:266  let mut logs = self.logs.write().await
LogLock(c) ==
    /\ log_pc[c] = "idle"
    /\ \A other \in LogTasks : log_pc[other] = "idle"
    /\ appended < MaxLogCalls
    /\ log_pc' = [ log_pc EXCEPT ![c] = "locked" ]
    /\ UNCHANGED << logs, appended >>
    /\ configUnchanged
    /\ UNCHANGED notState

\* state.rs:267-271  pop_back when the ring is full, push_front, and the
\* guard is dropped
LogPush(c) ==
    /\ log_pc[c] = "locked"
    /\ logs' = add_log(logs, LogEntry(appended + 1))
    /\ appended' = appended + 1
    /\ log_pc' = [ log_pc EXCEPT ![c] = "idle" ]
    /\ configUnchanged
    /\ UNCHANGED notState

\* The operator edits, breaks or removes the file.
EditFile ==
    /\ reload_pc = "idle"
    /\ \E file \in ConfigFiles : config_file' = file
    /\ UNCHANGED << rules, masking_enabled, config_lock, reload_pc, new_config, lastReload,
                    observed, logs, log_pc, appended >>
    /\ UNCHANGED notState

\* state.rs:321-327  reload_config up to the write guard: load the file; a
\* failure is returned to the caller
ReloadLoad ==
    /\ reload_pc = "idle"
    /\ LET loaded == AppConfig_load(config_file)
           kept == AfterFailedLoad(Config)
       IN  IF loaded.st = "err"
           THEN /\ masking_enabled' = kept.masking_enabled
                /\ rules' = kept.rules
                /\ lastReload' = [ result |-> "err", file |-> config_file, before |-> Config,
                                   after |-> kept ]
                /\ UNCHANGED << reload_pc, new_config >>
           ELSE /\ new_config' = loaded.v
                /\ reload_pc' = "loaded"
                /\ lastReload' = [ result |-> "loading", file |-> config_file,
                                   before |-> Config, after |-> Config ]
                /\ UNCHANGED << rules, masking_enabled >>
    /\ UNCHANGED << config_file, config_lock, observed, logs, log_pc, appended >>
    /\ UNCHANGED notState

\* state.rs:330-333  the write guard is taken and "*config = new_config"
\* moves the new value in, field after field; the guard is dropped with the
\* last one
ReloadStore ==
    /\ \/ /\ reload_pc = "loaded"
          /\ config_lock = "free"
          /\ config_lock' = "write"
          /\ reload_pc' = "locked"
          /\ UNCHANGED << rules, masking_enabled, lastReload >>
       \/ /\ reload_pc = "locked"
          /\ masking_enabled' = new_config.masking_enabled
          /\ reload_pc' = "half"
          /\ UNCHANGED << rules, config_lock, lastReload >>
       \/ /\ reload_pc = "half"
          /\ rules' = new_config.rules
          /\ config_lock' = "free"
          /\ reload_pc' = "idle"
          /\ lastReload' = [ lastReload EXCEPT !.result = "ok", !.after = new_config ]
          /\ UNCHANGED masking_enabled
    /\ UNCHANGED << config_file, new_config, observed, logs, log_pc, appended >>
    /\ UNCHANGED notState

\* interceptor.rs:180-199, 207-211  a reader takes the config under its read
\* guard
ReadConfig ==
    /\ CanRead(config_lock)
    /\ observed' = Config
    /\ UNCHANGED << rules, masking_enabled, config_file, config_lock, reload_pc, new_config,
                    lastReload, logs, log_pc, appended >>
    /\ UNCHANGED notState

StateNext ==
    \/ \E c \in LogTasks : LogLock(c)
    \/ \E c \in LogTasks : LogPush(c)
    \/ EditFile
    \/ ReloadLoad
    \/ ReloadStore
    \/ ReadConfig

SpecState == StateInit /\ [][StateNext]_vars

(***************************************************************************)
(* The tasks on the shared locks.  AppState keeps config, health_status,   *)
(* stats and logs each behind a tokio RwLock (state.rs:145-161).  A task   *)
(* is a connection task calling the interceptor, the health updater, or a  *)
(* management handler; an operation is the sequence of its lock steps in   *)
(* source order.  tokio's RwLock is fair: requests are served in the order *)
(* they were made, a waiting writer holds back later readers.              *)
(***************************************************************************)
Acq(l, m) == [ k |-> "acq", l |-> l, m |-> m ]
Rel(l) == [ k |-> "rel", l |-> l, m |-> "" ]
Load(n) == [ k |-> "load", l |-> n, m |-> "" ]
Store(n) == [ k |-> "store", l |-> n, m |-> "" ]

\* state.rs:70-87  MaskingStats::increment: the counter a strategy name selects
CounterOf(strategy) == IF strategy \in StatNames \ { "other" } THEN strategy ELSE "other"

\* state.rs:343-347  AppState::record_masking: the write guard on stats, the
\* counter's += 1 as a read and a write, the guard dropped at the end
record_masking_steps(strategy) ==
    << Acq("stats", "w"), Load(strategy), Store(strategy), Rel("stats") >>

\* state.rs:265-271  AppState::add_log
add_log_steps == << Acq("logs", "w"), Rel("logs") >>

\* interceptor.rs:177-201, 408-420  on_row_description / on_column_definition:
\* the rules are read under a read guard that ends with the function
on_row_description_steps == << Acq("config", "r"), Rel("config") >>

RECURSIVE RecordEach(_)
\* the record_masking calls of the cells of one row, in cell order
RecordEach(cells) ==
    IF Len(cells) = 0 THEN << >>
    ELSE record_masking_steps(Head(cells)) \o RecordEach(Tail(cells))

\* interceptor.rs:204-357, 425-531  on_data_row / on_result_row: masking_enabled
\* is read in a block of its own, then one record_masking per masked cell,
\* then add_log when a cell was changed
on_data_row_steps(cells) ==
    << Acq("config", "r"), Rel("config") >> \o RecordEach(cells)
       \o (IF Len(cells) > 0 THEN add_log_steps ELSE << >>)

\* state.rs:280-316  AppState::update_health_status: the write guard on
\* health_status is held while the thresholds are read from config
update_health_status_steps ==
    << Acq("health_status", "w"), Acq("config", "r"), Rel("config"), Rel("health_status") >>

\* api.rs:44-133  api_auth: every exit drops the config guard before it awaits
api_auth_steps == << Acq("config", "r"), Rel("config") >>

\* api.rs:200-232  health_check (not behind api_auth)
health_check_steps == << Acq("health_status", "r"), Rel("health_status") >>

\* api.rs:419-440  update_config keeping its write guard up to the end
update_config_holding_write ==
    api_auth_steps \o << Acq("config", "w"), Acq("config", "r"), Rel("config"), Rel("config") >>

\* api.rs:419-440  update_config: write guard, drop, audit log, read guard
update_config_steps ==
    api_auth_steps \o << Acq("config", "w"), Rel("config"), Acq("config", "r"), Rel("config") >>

\* state.rs:382-384  get_stats
get_stats_steps == api_auth_steps \o << Acq("stats", "r"), Rel("stats") >>

\* api.rs:570-575  get_logs
get_logs_steps == api_auth_steps \o << Acq("logs", "r"), Rel("logs") >>

\* rows a connection task masks: the strategy names of the cells it changes
MaskedCells == { << >>, << "email" >>, << "bogus" >> }

\* the operations a task may start, with their lock steps
Operations(t) ==
    IF t \in ConnTasks
    THEN { [ op |-> "on_row_description", prog |-> on_row_description_steps ] }
         \cup { [ op |-> "on_data_row", prog |-> on_data_row_steps(cells) ] : cells \in MaskedCells }
    ELSE IF t = HealthTask
    THEN { [ op |-> "update_health_status", prog |-> update_health_status_steps ] }
    ELSE { [ op |-> "health_check", prog |-> health_check_steps ],
           [ op |-> "update_config", prog |-> update_config_steps ],
           [ op |-> "get_stats", prog |-> get_stats_steps ],
           [ op |-> "get_logs", prog |-> get_logs_steps ] }

\* a request any holder lets in
CompatibleAlways(held, m) == TRUE

\* tokio::sync::RwLock: a read guard goes with other read guards, a write
\* guard with nothing
Compatible(held, m) ==
    IF m = "w" THEN held.writer = NoTask /\ held.readers = {}
    ELSE held.writer = NoTask

\* the guard handed to task t
Grant(held, t, m) ==
    IF m = "w" THEN [ held EXCEPT !.writer = t ]
    ELSE [ held EXCEPT !.readers = @ \cup { t } ]

\* the guard of task t dropped
Drop_guard(held, t) ==
    IF held.writer = t THEN [ held EXCEPT !.writer = NoTask ]
    ELSE [ held EXCEPT !.readers = @ \ { t } ]

RECURSIVE Promote(_, _, _)
\* the waiting requests served from the front of the queue as far as the
\* guards held allow: [held, queue, woken]
Promote(held, queue, woken) ==
    IF Len(queue) > 0 /\ Compatible(held, Head(queue).m)
    THEN Promote(Grant(held, Head(queue).t, Head(queue).m), Tail(queue),
                 woken \cup { Head(queue).t })
    ELSE [ held |-> held, queue |-> queue, woken |-> woken ]

\* task t waits for a lock
Waiting(t) == \E l \in LockNames : \E i \in 1..Len(lock_queue[l]) : lock_queue[l][i].t = t

\* task t holds a guard of lock l
Holds(t, l) == lock_held[l].writer = t \/ t \in lock_held[l].readers

\* record_masking calls the operations under way have still to make
Pending(t) ==
    Cardinality({ i \in task[t].ip..Len(task[t].prog) : task[t].prog[i].k = "store" })

RECURSIVE SumOver(_, _)
SumOver(f, S) ==
    IF S = {} THEN 0
    ELSE LET x == CHOOSE y \in S : TRUE IN f[x] + SumOver(f, S \ { x })

\* state.rs:89-101  MaskingStats::total
total(st) == SumOver(st, StatNames)

\* the position after the step at ip: the operation ends with its last step
Advance(tk) ==
    IF tk.ip >= Len(tk.prog) THEN IdleTask ELSE [ tk EXCEPT !.ip = @ + 1 ]

LocksInit ==
    /\ LocksIdle
    /\ AcceptIdle
    /\ MaskIdle
    /\ ConnIdle
    /\ HealthIdle
    /\ CodecIdle
    /\ StateIdle

\* a task takes up its next operation
StartOp(t) ==
    /\ task[t].op = "idle"
    /\ \E o \in Operations(t) :
          /\ SumOver(masksMade, MaskNames)
                + SumOver([ u \in Tasks |-> Pending(u) ], Tasks)
                + Cardinality({ i \in 1..Len(o.prog) : o.prog[i].k = "store" }) <= MaxMasks
          /\ task' = [ task EXCEPT ![t] = [ op |-> o.op, prog |-> o.prog, ip |-> 1, local |-> 0 ] ]
    /\ UNCHANGED << lock_held, lock_queue, masksMade, stats >>
    /\ UNCHANGED notLocks

\* lock.read().await / lock.write().await: the guard at once when nobody
\* waits and the holders allow it, else the request joins the queue
Acquire(t) ==
    /\ task[t].op # "idle"
    /\ ~Waiting(t)
    /\ task[t].prog[task[t].ip].k = "acq"
    /\ \E ins \in { task[t].prog[task[t].ip] } :
          IF Len(lock_queue[ins.l]) = 0 /\ Compatible(lock_held[ins.l], ins.m)
          THEN /\ lock_held' = [ lock_held EXCEPT ![ins.l] = Grant(@, t, ins.m) ]
               /\ task' = [ task EXCEPT ![t] = Advance(@) ]
               /\ UNCHANGED lock_queue
          ELSE /\ lock_queue' = [ lock_queue EXCEPT ![ins.l] = Append(@, [ t |-> t, m |-> ins.m ]) ]
               /\ UNCHANGED << lock_held, task >>
    /\ UNCHANGED << masksMade, stats >>
    /\ UNCHANGED notLocks

\* a guard goes out of scope: the requests at the front of the queue that
\* fit are granted and their tasks go on
Release(t) ==
    /\ task[t].op # "idle"
    /\ ~Waiting(t)
    /\ task[t].prog[task[t].ip].k = "rel"
    /\ \E ins \in { task[t].prog[task[t].ip] } :
       \E p \in { Promote(Drop_guard(lock_held[ins.l], t), lock_queue[ins.l], {}) } :
          /\ lock_held' = [ lock_held EXCEPT ![ins.l] = p.held ]
          /\ lock_queue' = [ lock_queue EXCEPT ![ins.l] = p.queue ]
          /\ task' = [ u \in Tasks |->
                         IF u = t \/ u \in p.woken THEN Advance(task[u]) ELSE task[u] ]
    /\ UNCHANGED << masksMade, stats >>
    /\ UNCHANGED notLocks

\* stats.masking.increment(strategy), first half: the counter is read
LoadCounter(t) ==
    /\ task[t].op # "idle"
    /\ task[t].prog[task[t].ip].k = "load"
    /\ task' = [ task EXCEPT ![t] =
                   [ Advance(@) EXCEPT !.local = stats[CounterOf(task[t].prog[task[t].ip].l)] ] ]
    /\ UNCHANGED << lock_held, lock_queue, masksMade, stats >>
    /\ UNCHANGED notLocks

\* stats.masking.increment(strategy), second half: the counter is written
StoreCounter(t) ==
    /\ task[t].op # "idle"
    /\ task[t].prog[task[t].ip].k = "store"
    /\ \E n \in { task[t].prog[task[t].ip].l } :
          /\ stats' = [ stats EXCEPT ![CounterOf(n)] = task[t].local + 1 ]
          /\ masksMade' = [ masksMade EXCEPT ![n] = @ + 1 ]
    /\ task' = [ task EXCEPT ![t] = Advance(@) ]
    /\ UNCHANGED << lock_held, lock_queue >>
    /\ UNCHANGED notLocks

\* a task that is inside an operation takes its next step
Continue(t) == Acquire(t) \/ Release(t) \/ LoadCounter(t) \/ StoreCounter(t)

LocksNext ==
    \/ \E t \in Tasks : StartOp(t)
    \/ \E t \in Tasks : Acquire(t)
    \/ \E t \in Tasks : Release(t)
    \/ \E t \in Tasks : LoadCounter(t)
    \/ \E t \in Tasks : StoreCounter(t)

SpecLocks == LocksInit /\ [][LocksNext]_vars

\* the runtime polls every task that can go on; new operations may or may
\* not arrive
SpecLocksLive == SpecLocks /\ \A t \in Tasks : WF_vars(Continue(t))


(***************************************************************************)
(* Claims about the listener, checked under SpecAccept.                    *)
(***************************************************************************)

\* C9: with limits.max_connections = M, the connection tasks alive (each holding
\* one permit) never number more than M, the permits available and held add up
\* to M, and an accept that found no permit spawned no task.
C9_AtMostMaxConnections ==
    IsSome(max_connections) =>
        /\ spawned + running <= Unwrap(max_connections)
        /\ sem_permits >= 0
        /\ sem_permits + spawned + running = Unwrap(max_connections)
        /\ \A i \in 1..Len(recent) :
               /\ (recent[i].admitted /\ recent[i].permits = 0) => ~recent[i].task
               /\ recent[i].task => recent[i].permits > 0

\* C9 witness: the ceiling M >= 1 is reached again by an accept admitted after
\* an earlier accept was turned away for lack of a permit.
C9_Witness ==
    /\ IsSome(max_connections)
    /\ limitHistory = "readmitted"
    /\ spawned + running = Unwrap(max_connections)

\* The three accepts in the history lie inside one second.
ThreeInsideOneSecond ==
    /\ Len(recent) = 3
    /\ recent[3].t - recent[1].t < TicksPerSec

\* The parts of C10 about the bucket: at most N sockets pass between two
\* refills; a refill is made only by an accept at least one second after the
\* previous refill and fills the bucket to N; an accept that finds the bucket
\* empty is closed with nothing written and no task spawned.
C10_Bucket ==
    IsSome(rate_limit) =>
        /\ passedSinceRefill <= Unwrap(rate_limit)
        /\ rate_limit_tokens + passedSinceRefill = Unwrap(rate_limit)
        /\ last_refill = (IF Len(recent) = 0 THEN 0 ELSE recent[Len(recent)].window)
        /\ \A i \in 1..Len(recent) :
               /\ recent[i].refilled =>
                      /\ recent[i].found = Unwrap(rate_limit)
                      /\ recent[i].t - recent[i].prev >= TicksPerSec
                      /\ recent[i].window = recent[i].t
               /\ ~recent[i].refilled => recent[i].window = recent[i].prev
               /\ recent[i].found = 0 =>
                      /\ ~recent[i].admitted
                      /\ ~recent[i].task
                      /\ recent[i].written = 0
               /\ recent[i].found > 0 => recent[i].admitted

\* C10 as stated: the bucket properties, and with N = 2 any three accepts inside
\* one second, the first finding the bucket full: two admitted, the third rejected.
C10_Original ==
    /\ C10_Bucket
    /\ (rate_limit = Some(2) /\ ThreeInsideOneSecond /\ recent[1].found = 2) =>
           /\ recent[1].admitted
           /\ recent[2].admitted
           /\ ~recent[3].admitted

\* C10 amended: the bucket properties, and with N = 2 three accepts between the
\* same two refills, the first finding the bucket full: two admitted, the third
\* rejected.
C10_Amended ==
    /\ C10_Bucket
    /\ (/\ rate_limit = Some(2)
        /\ Len(recent) = 3
        /\ recent[1].found = 2
        /\ recent[2].window = recent[1].window
        /\ recent[3].window = recent[1].window) =>
           /\ recent[1].admitted
           /\ recent[2].admitted
           /\ ~recent[3].admitted

\* C10 witness: N = 2, three accepts inside one second and inside one refill
\* window, the third turned away.
C10_Witness ==
    /\ rate_limit = Some(2)
    /\ ThreeInsideOneSecond
    /\ recent[1].found = 2
    /\ recent[3].window = recent[1].window
    /\ ~recent[3].admitted
    /\ ~recent[3].task


\* C11: every connection task that incremented the gauge decrements it
\* exactly once when it ends, whatever the outcome, so that while main runs
\* the gauge equals the number of tasks between start and exit.
C11_GaugeCountsRunningTasks ==
    mainPc # "exited" => active_connections = running

\* C12: once the shutdown signal is observed no further socket is accepted;
\* main leaves the drain loop only when the gauge reads 0 or the grace
\* period has elapsed; and main eventually exits, even if connections never
\* finish.
C12_ShutdownTerminates ==
    /\ [][mainPc # "accepting" => accepted' = accepted /\ spawned' <= spawned]_vars
    /\ [][mainPc = "draining" /\ mainPc' = "exited" =>
              \/ active_connections = 0
              \/ now - drain_start >= shutdown_timeout * TicksPerSec]_vars
    /\ (mainPc = "draining") ~> (mainPc = "exited")

\* C12 witness: main exited at the end of a non-zero grace period with the
\* gauge still above 0.
C12_Witness ==
    /\ mainPc = "exited"
    /\ shutdown_timeout > 0
    /\ active_connections > 0
    /\ now - drain_start >= shutdown_timeout * TicksPerSec

(***************************************************************************)
(* Claims about the masking engine, checked under SpecMask.                *)
(***************************************************************************)
RowCall == lastCall.op \in { "on_data_row", "on_result_row" }

\* C3: for every row passed to on_data_row / on_result_row, under any
\* configuration and any column map, the returned row has as many cells as
\* the input, and cell i is null in the output exactly when it is null in
\* the input.
C3_ShapePreserved ==
    RowCall =>
        /\ Len(lastCall.results) = Len(lastCall.msg)
        /\ \A i \in 1..Len(lastCall.msg) :
              IsNone(lastCall.results[i].value) <=> IsNone(lastCall.msg[i])

\* C3 witness: a row with a null cell and a cell that was rewritten.
C3_Witness ==
    /\ RowCall
    /\ \E i, j \in 1..Len(lastCall.msg) :
          /\ IsNone(lastCall.msg[i])
          /\ IsSome(lastCall.msg[j])
          /\ lastCall.results[j].changed
          /\ lastCall.results[j].value # lastCall.msg[j]

\* C4: when masking_enabled is false at the time a row is processed, the
\* handler returns every cell identical to the input, whatever the column
\* map and the cell contents, and the masking counters and the log ring are
\* unchanged.
C4_DisabledIsIdentity ==
    (RowCall /\ ~lastCall.masking_enabled) =>
        /\ Values(lastCall.results) = lastCall.msg
        /\ stats = lastCall.stats
        /\ logs = lastCall.logs

\* C4 witness: masking is off, the column map has an entry for a present
\* cell, and another cell holds a value the scanner classifies.
C4_Witness ==
    /\ RowCall
    /\ ~lastCall.masking_enabled
    /\ \E i, j \in 1..Len(lastCall.msg) :
          /\ IsSome(lastCall.msg[i])
          /\ IsSome(explicit_strategy(lastCall.target_cols, i - 1))
          /\ lastCall.msg[j] = Some(TextBytes(SsnText))

\* C5: the substituted value of a string s classified as kind K is the same
\* whether s is a top-level cell, a string leaf of a JSON document or an
\* element of a Postgres array literal.  Stated on one DataRow whose columns
\* have no explicit rule: the fake written for the cell s is the fake written
\* for the leaf s of a JSON cell and for the element s of an array cell.
C5_SameOutputEverywhere ==
    (lastCall.op = "on_data_row" /\ lastCall.masking_enabled) =>
        \A i, j \in 1..Len(lastCall.msg) :
            ( /\ lastCall.msg[i] = Some(TextBytes(SsnText))
              /\ IsNone(explicit_strategy(lastCall.target_cols, i - 1))
              /\ IsNone(explicit_strategy(lastCall.target_cols, j - 1)) ) =>
            LET fake == Unwrap(lastCall.results[i].value).s
            IN  /\ lastCall.msg[j] = Some(JsonBytes(Node("arr", << >>, << >>,
                                        << Node("str", SsnText, << >>, << >>) >>), TRUE))
                   => lastCall.results[j].value =
                         Some(JsonBytes(Node("arr", << >>, << >>,
                                             << Node("str", fake, << >>, << >>) >>), TRUE))
                /\ lastCall.msg[j] = Some(TextBytes(ArrayText))
                   => lastCall.results[j].value =
                         Some(TextBytes(<< "{", "\"" >> \o fake \o << "\"", ",", "x", "}" >>))

\* C6: when column descriptors arrive, each column gets the strategy of the
\* first rule, in list order, whose column equals the column's name and
\* whose table is absent or (MySQL) equals the column's table; a column with
\* no matching rule gets no entry; on Postgres a rule with a table matches
\* by column name alone.
C6_FirstMatchingRule ==
    /\ lastCall.op = "on_row_description" =>
          /\ \A e \in 1..Len(target_cols) : target_cols[e][1] \in 0..(Len(lastCall.fields) - 1)
          /\ \A i \in 1..Len(lastCall.fields) :
                LET matching == { n \in 1..Len(lastCall.rules) :
                                    lastCall.rules[n].column = lastCall.fields[i] }
                    entries == { e \in 1..Len(target_cols) : target_cols[e][1] = i - 1 }
                IN  IF matching = {} THEN entries = {}
                    ELSE /\ Cardinality(entries) = 1
                         /\ \A e \in entries, n \in matching :
                               (\A m \in matching : n <= m) =>
                                   target_cols[e][2] = lastCall.rules[n].strategy
    /\ lastCall.op = "on_column_definition" =>
          LET matching == { n \in 1..Len(lastCall.rules) :
                              /\ lastCall.rules[n].column = lastCall.col.name
                              /\ \/ IsNone(lastCall.rules[n].table)
                                 \/ lastCall.rules[n].table = Some(lastCall.col.table) }
          IN  /\ column_names = Append(lastCall.column_names, lastCall.col.name)
              /\ IF matching = {} THEN my_target_cols = lastCall.target_cols
                 ELSE \E n \in matching :
                         /\ \A m \in matching : n <= m
                         /\ my_target_cols =
                               Append(lastCall.target_cols,
                                      << Len(lastCall.column_names), lastCall.rules[n].strategy >>)

\* C6 witness: a RowDescription names a column that two rules match, the
\* first of them constrained to a table, and the column got the first rule's
\* strategy; the column no rule matches got no entry.
C6_Witness ==
    /\ lastCall.op = "on_row_description"
    /\ lastCall.rules = << Rule(Some("users"), "email", "hash"), Rule(None, "email", "email") >>
    /\ lastCall.fields = << "doc", "email" >>
    /\ target_cols = << << 1, "hash" >> >>

(***************************************************************************)
(* Claims about one connection (SpecConn).                                 *)
(***************************************************************************)
\* the items of out that are frames forwarded from the other side
Forwarded(out) == SelectSeq(out, LAMBDA item : item.kind = "frame" /\ item.src # 0)

\* C1: in the Postgres forwarding loop every frame the client sends after
\* Startup, whatever its type byte, is forwarded to upstream exactly once
\* and byte-identical; of the first messages only SSLRequest is not
\* forwarded; and no client frame makes the connection task abort.
C1_ClientFramesForwarded ==
    protocol = "postgres" =>
        /\ pc # "panicked"
        /\ \A k \in 1..Len(clientTaken) :
              LET copies == { n \in 1..Len(upOut) : upOut[n].src = k }
              IN  IF clientTaken[k].type = "SSLRequest"
                  THEN copies = {}
                  ELSE /\ Cardinality(copies) = 1
                       /\ \A n \in copies : upOut[n].bytes = clientTaken[k].raw

\* the rule a column of a MySQL result set matches, if any
MatchedRule(column) ==
    FirstMatch(rules, [ r \in 1..Len(rules) |->
                          /\ IsNone(rules[r].table) \/ Unwrap(rules[r].table) = column[1]
                          /\ rules[r].column = column[2] ])

\* the cell i of a row written to the client is the output of the strategy
\* of the rule its column matches
RowCellMasked(item, i) ==
    LET row == upstreamTaken[item.src]
        found == MatchedRule(ResultSets[row.rs].columns[i])
    IN  IsSome(found) /\ IsSome(row.values[i]) =>
            /\ i <= Len(item.msg.values)
            /\ item.msg.values[i] = Some(MaskResultCellMemo[Unwrap(row.values[i]), found].val)

C7_OrderPreserved ==
    LET toClient == Forwarded(clOut)
        toUpstream == Forwarded(upOut)
        decoded == { k \in 1..Len(clientTaken) :
                       clientTaken[k].st = "ok" /\ clientTaken[k].type # "SSLRequest" }
    IN  /\ \A n \in 1..Len(toClient) : toClient[n].src = n
        /\ \/ Len(toClient) = Len(upstreamTaken)
           \/ pc = "failed" /\ Len(toClient) = Len(upstreamTaken) - 1
        /\ \A n \in 1..Len(toUpstream) :
              /\ toUpstream[n].src \in decoded
              /\ n > 1 => toUpstream[n - 1].src < toUpstream[n].src
        /\ Len(toUpstream) = Cardinality(decoded)

\* frames went both ways on a Postgres connection, two in each direction
C7_Witness ==
    /\ protocol = "postgres"
    /\ Len(Forwarded(clOut)) = 2
    /\ Len(Forwarded(upOut)) = 2
    /\ Forwarded(clOut)[2].msg.type = "DataRow"

\* C8: everything written to the client is the image of a frame decoded
\* from upstream or the byte 'S' or 'N' answering an SSLRequest, one per
\* SSLRequest; this holds also once the connection has failed: a failure
\* closes the connection and writes nothing.
C8_OnlyImagesAndSslAnswers ==
    \A n \in 1..Len(clOut) :
        LET item == clOut[n]
        IN  \/ /\ item.kind = "byte"
               /\ item.byte \in { "S", "N" }
               /\ item.src \in 1..Len(clientTaken)
               /\ clientTaken[item.src].type = "SSLRequest"
               /\ \A m \in 1..Len(clOut) : clOut[m].kind = "byte" /\ clOut[m].src = item.src => m = n
            \/ /\ item.kind = "frame"
               /\ item.src \in 1..Len(upstreamTaken)
               /\ LET taken == upstreamTaken[item.src]
                  IN  /\ item.msg.num = taken.num
                      /\ item.msg.names = taken.names
                      /\ item.msg.rs = taken.rs
                      /\ Len(item.msg.values) = Len(taken.values)
                      /\ item.msg.values # taken.values => item.msg.type \in { "DataRow", "ResultRow" }

\* an upstream frame failed to decode after an SSLRequest was answered and
\* a frame was forwarded to the client
C8_Witness ==
    /\ pc = "failed"
    /\ Len(upstreamTaken) > 1
    /\ upstreamTaken[Len(upstreamTaken)].type = "Malformed"
    /\ \E n \in 1..Len(clOut) : clOut[n].kind = "byte"
    /\ \E n \in 1..Len(clOut) : clOut[n].kind = "frame"

\* the bytes written to the client in answer to the k-th client frame
AnswersTo(k) ==
    SelectSeq(clOut, LAMBDA item : item.kind = "byte" /\ item.src = k)

\* C14: with no TLS acceptor, a client that opens with SSLRequest gets
\* exactly one byte 'N', nothing is written upstream for the SSLRequest, the
\* client codec stays in startup mode, and the Startup message sent next is
\* decoded as Startup with its parameters and forwarded upstream.
C14_SslDeniedThenStartup ==
    (protocol = "postgres" /\ ~tls_acceptor /\ Len(clientTaken) >= 1
        /\ clientTaken[1].type = "SSLRequest") =>
        /\ AnswersTo(1) = << Item("byte", "N", << >>, NoMsg, 1) >>
        /\ \A n \in 1..Len(upOut) : upOut[n].src # 1
        /\ Len(clientTaken) = 1 /\ pc \in { "connect", "loop" } => is_startup
        /\ (Len(clientTaken) >= 2 /\ clientTaken[2].raw[4] = 16) =>
               /\ clientTaken[2].st = "ok"
               /\ clientTaken[2].type = "Startup"
               /\ PostgresCodec_decode(clientTaken[2].raw, TRUE).v.parts
                      = << << 117, 115, 101, 114 >>, << 117 >> >>
               /\ \E n \in 1..Len(upOut) :
                      upOut[n].src = 2 /\ upOut[n].bytes = clientTaken[2].raw

\* C14 witness: SSLRequest denied, then Startup taken and forwarded
C14_Witness ==
    /\ protocol = "postgres"
    /\ ~tls_acceptor
    /\ Len(clientTaken) = 2
    /\ clientTaken[1].type = "SSLRequest"
    /\ clientTaken[2].type = "Startup"
    /\ Len(Forwarded(upOut)) = 1
    /\ ~is_startup

\* C15: with a TLS acceptor configured, a client stream that begins with
\* the SSLRequest is answered 'S' and never 'N', however the 8 bytes
\* arrive.
C15_AcceptorAnswersS ==
    (protocol = "postgres" /\ tls_acceptor /\ Len(clientTaken) >= 1
        /\ clientTaken[1].type = "SSLRequest") =>
        AnswersTo(1) = << Item("byte", "S", << >>, NoMsg, 1) >>

(***************************************************************************)
(* Claims about the health tracking (SpecHealth).                          *)
(***************************************************************************)
\* what C13 says of the state after a probe
FlagFollowsThresholds ==
    /\ health_status.consecutive_failures >= unhealthy_threshold => ~health_status.healthy
    /\ health_status.consecutive_successes >= healthy_threshold => health_status.healthy
    /\ (/\ health_status.consecutive_failures < unhealthy_threshold
        /\ health_status.consecutive_successes < healthy_threshold) =>
           health_status.healthy = lastProbe.before
    /\ health_status.healthy = upstream_healthy
    /\ health_status.consecutive_failures = 0 \/ health_status.consecutive_successes = 0

\* C13 as stated: after any sequence of probe results and for every pair of
\* thresholds, the flag is false once the consecutive failures reach
\* unhealthy_threshold, true once the consecutive successes reach
\* healthy_threshold, unchanged otherwise, and equal to the atomic bit.
C13_Original == probes > 0 => FlagFollowsThresholds

\* C13 amended: the same for every pair of thresholds that are both at
\* least 1.
C13_Amended ==
    probes > 0 /\ unhealthy_threshold >= 1 /\ healthy_threshold >= 1 => FlagFollowsThresholds

\* C13 witness: with thresholds 2 and 2 the flag went down, stayed down
\* after one success, and is up again after the second.
C13_Witness ==
    /\ unhealthy_threshold = 2
    /\ healthy_threshold = 2
    /\ probes = 4
    /\ health_status.consecutive_successes = 2
    /\ health_status.healthy
    /\ ~lastProbe.before

(***************************************************************************)
(* Claims about the codecs.                                                *)
(***************************************************************************)

\* C16: PostgresCodec::decode answers every complete malformed frame (a
\* length prefix smaller than the header, a missing terminator, a count or
\* a cell length beyond the payload, a negative cell length other than -1)
\* with an error value: it returns no message and does not abort, and no
\* image of the frame is written.
C16_MalformedFramesRejected ==
    codec.protocol = "postgres" =>
        /\ \A i \in 1..Len(codecOut) :
              codecOut[i].raw \in PgMalformedFrames => codecOut[i].st = "err"
        /\ Len(codecEcho) <= Cardinality({ i \in 1..Len(codecOut) : codecOut[i].st = "ok" })

\* A PgMessage value as decode can return it: no NUL inside a string, no
\* empty startup key, no SSLRequest code as protocol version, no Regular
\* message with the type byte of a variant of its own.
Decodable(m) ==
    /\ m.type \in { "Startup", "Query", "Parse", "RowDescription" } =>
          \A i \in 1..Len(m.parts) : \A j \in 1..Len(m.parts[i]) : m.parts[i][j] # 0
    /\ m.type = "Startup" =>
          /\ m.num # 80877103
          /\ \A i \in 1..Len(m.parts) : i % 2 = 1 => Len(m.parts[i]) > 0
    /\ m.type = "Regular" => m.num \notin { 84, 68, 81, 80 }

\* encode(m) was written and decode returned m, consuming all of it
RoundTrip(m) ==
    /\ lastDecode.before = codecFed.bytes => lastDecode.st = "ok" /\ lastDecode.after = << >>
    /\ Len(codecOut) <= 1
    /\ Len(codecOut) = 1 =>
          /\ codecOut[1].st = "ok"
          /\ codecOut[1].raw = codecFed.bytes
          /\ codecOut[1].msg = m

\* C17 as stated: for every PgMessage value m of every variant, encode(m)
\* followed by decode in the mode matching m yields exactly one message, of
\* the same variant and with equal fields, and leaves no bytes.
C17_Original ==
    Len(codecFed.sent) = 1 => RoundTrip(codecFed.sent[1])

\* C17 amended: the same for every PgMessage value that decode can return.
C17_Amended ==
    Len(codecFed.sent) = 1 /\ Decodable(codecFed.sent[1]) => RoundTrip(codecFed.sent[1])

C17_Witness ==
    /\ Len(codecFed.sent) = 1
    /\ codecFed.sent[1].type = "DataRow"
    /\ Len(codecFed.sent[1].parts) = 3
    /\ Len(codecOut) = 1
    /\ codecOut[1].msg = codecFed.sent[1]
    /\ codecBuf = << >>
    /\ codecWire = << >>

\* two outcomes of decode are the same: same verdict, same bytes consumed,
\* same message
SameOutcome(a, b) ==
    /\ a.st = b.st
    /\ a.raw = b.raw
    /\ a.st = "ok" => a.msg = b.msg /\ a.capability_flags = b.capability_flags

\* everything written has been read and the codec was polled until it asked
\* for more or failed
PolledOut ==
    /\ codecQueue = << >>
    /\ codecWire = << >>
    /\ \/ CodecDead
       \/ /\ lastDecode.st = "none"
          /\ lastDecode.before = codecBuf
          /\ lastDecode.codecBefore = codec

\* the bytes decode needs before it can tell the length of a frame
HeaderLen(c) == IF c.protocol = "postgres" /\ ~c.is_startup THEN 5 ELSE 4

\* C19: for both codecs and every byte stream, feeding the stream in
\* arbitrary chunks gives the same frames and the same final codec state
\* as feeding it at once; on a buffer that holds only an incomplete frame
\* decode reports "need more", consumes nothing and leaves the codec as it
\* was.
C19_ChunkingIndependent ==
    LET whole == DecodeAll(codecFed.codec, codecFed.bytes, << >>)
        next == Len(codecOut) + 1
    IN  /\ Len(codecOut) <= Len(whole.out)
        /\ \A i \in 1..Len(codecOut) : SameOutcome(codecOut[i], whole.out[i])
        /\ PolledOut =>
              /\ Len(codecOut) = Len(whole.out)
              /\ codecBuf = whole.rest
              /\ codec = whole.codec
        /\ lastDecode.st = "none" =>
              /\ lastDecode.after = lastDecode.before
              /\ lastDecode.codecAfter = lastDecode.codecBefore
              /\ next <= Len(whole.out) =>
                    \/ Len(lastDecode.before) < Len(whole.out[next].raw)
                    \/ Len(lastDecode.before) < HeaderLen(lastDecode.codecBefore)

\* a decode on a buffer that ends inside the second frame of a stream
C19_Witness ==
    /\ Len(codecOut) = 1
    /\ lastDecode.st = "none"
    /\ lastDecode.before # << >>
    /\ lastDecode.before = codecBuf
    /\ codecWire # << >>
    /\ codec.protocol = "mysql"

\* C18: every well-formed MySQL packet (Handshake, HandshakeResponse,
\* Generic, Query, ColumnDefinition, Ok, Err, Eof, and a ResultRow that is
\* not masked) that the codec decodes is re-encoded byte for byte as it was
\* received, and the codec's capability flags are the same after the packet
\* is re-emitted as they were when it was decoded.
C18_ReencodedIdentical ==
    codec.protocol = "mysql" =>
        \A i \in 1..Len(codecEcho) :
            /\ codecEcho[i].bytes = codecOut[i].raw
            /\ codecEcho[i].capability_flags = codecOut[i].capability_flags

\* C20: the MySQL codec rejects no packet for its sequence id, and every
\* packet it decodes, of every variant including Handshake and
\* HandshakeResponse, is re-encoded with the sequence id it was received
\* with.
C20_SequenceIdKept ==
    codec.protocol = "mysql" =>
        /\ ~codec.is_client_side => \A i \in 1..Len(codecOut) : codecOut[i].st = "ok"
        /\ \A i \in 1..Len(codecEcho) : codecEcho[i].bytes[4] = codecOut[i].raw[4]

(***************************************************************************)
(* Claims about the MySQL handshake (SpecConn).                            *)
(***************************************************************************)
\* C21: in a MySQL session where the server greets with HandshakeV10 and the
\* client answers with a HandshakeResponse, the client-facing codec decodes
\* that packet as HandshakeResponse and advances to Command, the packet is
\* forwarded upstream after the greeting went to the client, and the
\* connection does not end with a protocol error.
C21_HandshakeReachesCommand ==
    (protocol = "mysql" /\ Len(upstreamTaken) >= 1 /\ upstreamTaken[1].type = "handshake"
        /\ Len(clientTaken) >= 1) =>
        /\ clientTaken[1].st = "ok"
        /\ clientTaken[1].type = "HandshakeResponse"
        /\ client_state = "Command"
        /\ pc # "failed"
        /\ Len(clOut) >= 1 /\ clOut[1].src = 1
        /\ \E n \in 1..Len(upOut) : upOut[n].src = 1 /\ upOut[n].bytes = clientTaken[1].raw

(***************************************************************************)
(* Claims about the masking engine (SpecMask), continued.                  *)
(***************************************************************************)
\* the rule lists compared with the configured one
SmallRuleLists == UNION { [ 1..n -> RuleValues ] : n \in 0..2 }

\* every rule of r1 also occurs in r2
Contained(r1, r2) == \A i \in 1..Len(r1) : \E j \in 1..Len(r2) : r2[j] = r1[i]
\* r2 is r1 followed by more rules
IsPrefix(r1, r2) == Len(r1) <= Len(r2) /\ \A i \in 1..Len(r1) : r2[i] = r1[i]

\* the strategy each column of the last descriptor call would get with the
\* rule list r
AssignedUnder(r) ==
    IF lastCall.op = "on_row_description"
    THEN [ i \in 1..Len(lastCall.fields) |->
             explicit_strategy(on_row_description(lastCall.fields, r), i - 1) ]
    ELSE << explicit_strategy(on_column_definition(lastCall.col, << >>, << >>, r).target_cols, 0) >>

\* the strategy each column of the last descriptor call got
Assigned ==
    IF lastCall.op = "on_row_description"
    THEN [ i \in 1..Len(lastCall.fields) |-> explicit_strategy(target_cols, i - 1) ]
    ELSE << IF my_target_cols = lastCall.target_cols THEN None
            ELSE Some(my_target_cols[Len(my_target_cols)][2]) >>

DescriptorCall == lastCall.op \in { "on_row_description", "on_column_definition" }

\* C22 as stated: for rule lists r1 contained in r2 and every column, a
\* column that matches under r1 matches under r2 and is assigned the same
\* strategy.
C22_Original ==
    DescriptorCall =>
        \A r1 \in SmallRuleLists :
            Contained(r1, lastCall.rules) =>
                \A i \in 1..Len(Assigned) :
                    IsSome(AssignedUnder(r1)[i]) => Assigned[i] = AssignedUnder(r1)[i]

\* C22 amended: a column that matches under r1 matches under r2; it is
\* assigned the same strategy when r2 is r1 followed by more rules.
C22_Amended ==
    DescriptorCall =>
        \A r1 \in SmallRuleLists :
            Contained(r1, lastCall.rules) =>
                \A i \in 1..Len(Assigned) :
                    IsSome(AssignedUnder(r1)[i]) =>
                        /\ IsSome(Assigned[i])
                        /\ IsPrefix(r1, lastCall.rules) => Assigned[i] = AssignedUnder(r1)[i]

\* C22 witness: a column definition matched under the configured list and
\* under a shorter list it extends, with the same strategy
C22_Witness ==
    /\ lastCall.op = "on_column_definition"
    /\ \E r1 \in SmallRuleLists :
          /\ Len(r1) >= 1
          /\ Len(r1) < Len(lastCall.rules)
          /\ IsPrefix(r1, lastCall.rules)
          /\ IsSome(AssignedUnder(r1)[1])
          /\ Assigned = AssignedUnder(r1)

(***************************************************************************)
(* Claims about the shared state (SpecState).                              *)
(***************************************************************************)
\* C23: after any sequence of add_log calls by the connection tasks the log
\* ring holds at most 100 entries, and they are the most recently appended
\* ones, newest first: every append beyond 100 evicted exactly the oldest.
C23_RingHoldsNewest ==
    /\ Len(logs) <= 100
    /\ Len(logs) = (IF appended < 100 THEN appended ELSE 100)
    /\ \A i \in 1..Len(logs) : logs[i] = LogEntry(appended - i + 1)

\* C23 witness: 103 entries were appended; the ring holds entries 103 down
\* to 4
C23_Witness ==
    /\ appended = 103
    /\ Len(logs) = 100
    /\ logs[1] = LogEntry(103)
    /\ logs[100] = LogEntry(4)

\* the configurations that were ever loaded whole
WholeConfigs == { AppConfig_load(f).v : f \in { g \in ConfigFiles : AppConfig_load(g).st = "ok" } }

\* C24: reload_config returns an error exactly when the file fails to load
\* or parse, and then the shared configuration (masking_enabled and the
\* rule list) is what it was before the call; a reader never sees a
\* configuration that is part old and part new.
C24_FailedReloadKeepsConfig ==
    /\ lastReload.result # "none" =>
          (lastReload.result = "err" <=> AppConfig_load(lastReload.file).st = "err")
    /\ lastReload.result = "err" =>
          /\ lastReload.after = lastReload.before
          /\ Config = lastReload.before
    /\ observed \in WholeConfigs

\* C24 witness: after a reload that installed a new configuration, a reload
\* of a file that is not YAML failed, and a reader took the config
C24_Witness ==
    /\ lastReload.result = "err"
    /\ lastReload.file = ConfigFile(TRUE, FALSE, None, None)
    /\ Config = AppConfig(FALSE, << Rule(None, "doc", "json") >>)
    /\ observed = Config
    /\ appended = 0

(***************************************************************************)
(* Claims about the codecs (SpecCodec), continued.                         *)
(***************************************************************************)
\* a Startup message is among the messages decoded so far
StartupDecoded ==
    \E i \in 1..Len(codecOut) : codecOut[i].st = "ok" /\ codecOut[i].msg.type = "Startup"

\* C25: the awaiting-startup flag of a Postgres codec starts true for the
\* client-side codec and false for the upstream-side one; a decode that
\* returns SSLRequest leaves it true, the first Startup decoded sets it to
\* false, a decode that asks for more bytes or fails leaves it as it was,
\* and nothing sets it back to true.
C25_StartupFlag ==
    codec.protocol = "postgres" =>
        /\ codecFed.codec.is_startup = ~codecFed.codec.is_client_side
        /\ codec.is_startup = (codecFed.codec.is_startup /\ ~StartupDecoded)
        /\ lastDecode.st # "never" =>
              LET was == lastDecode.codecBefore.is_startup
                  is == lastDecode.codecAfter.is_startup
              IN  /\ ~was => ~is
                  /\ lastDecode.st # "ok" => is = was
                  /\ lastDecode.st = "ok" /\ was =>
                        /\ codecOut[Len(codecOut)].msg.type \in { "SSLRequest", "Startup" }
                        /\ is = (codecOut[Len(codecOut)].msg.type = "SSLRequest")

\* C25 witness: the client-side codec decoded an SSLRequest and then a
\* Startup, and has been asked to decode again
C25_Witness ==
    /\ codec.protocol = "postgres"
    /\ codecFed.codec.is_startup
    /\ Len(codecOut) = 2
    /\ \A i \in 1..2 : codecOut[i].st = "ok"
    /\ codecOut[1].msg.type = "SSLRequest"
    /\ codecOut[2].msg.type = "Startup"
    /\ Len(codecEcho) = 2
    /\ lastDecode.st = "none"
    /\ ~codec.is_startup

(***************************************************************************)
(* Claims about the upstream-facing MySQL codec in a result set            *)
(* (SpecCodec).                                                            *)
(***************************************************************************)
\* the state of the codec when it decoded the i-th packet
StateBefore(i) == IF i = 1 THEN codecFed.codec.state ELSE codecOut[i - 1].state

\* the payload of the i-th packet decoded
PayloadOf(i) == Drop(codecOut[i].raw, 4)

\* a payload that opens a result set: a length-encoded column count of at
\* least one (0x00, 0xff, 0xfe and 0xfb open OK, ERR, EOF and LOCAL INFILE)
ResultSetHeader(payload) ==
    /\ Len(payload) > 0
    /\ payload[1] \notin { 0, 255, 254, 251 }
    /\ read_lenenc_int(payload).st = "ok"
    /\ read_lenenc_int(payload).v >= 1

\* an EOF packet: 0xfe and fewer than 9 bytes
EofPacket(payload) == Len(payload) > 0 /\ Len(payload) < 9 /\ payload[1] = 254

\* CLIENT_DEPRECATE_EOF was in the flags the codec held at the i-th packet
Deprecated(i) == HasFlag(codecOut[i].capability_flags, 24)

\* the packets up to the n-th were decoded without an error
DecodedUpTo(n) == n <= Len(codecOut) /\ \A k \in 1..n : codecOut[k].st = "ok"

\* what C26 says of the header decoded at position i, for headers that
\* announce a column count in counts
ColumnsCounted(i, counts) ==
    (/\ codecOut[i].st = "ok"
     /\ StateBefore(i) = "Command"
     /\ ResultSetHeader(PayloadOf(i))
     /\ read_lenenc_int(PayloadOf(i)).v \in counts) =>
        LET N == read_lenenc_int(PayloadOf(i)).v
        IN  /\ codecOut[i].state = "ReadingColumns"
            /\ \A j \in { n \in 1..(Len(codecOut) - i) : n <= N } :
                  DecodedUpTo(i + j) =>
                     /\ codecOut[i + j].msg.type = "ColumnDefinition"
                     /\ codecOut[i + j].state =
                           (IF j = N /\ Deprecated(i + j) THEN "ReadingRows"
                            ELSE "ReadingColumns")
            /\ (DecodedUpTo(i + N + 1) /\ ~Deprecated(i + N) /\ EofPacket(PayloadOf(i + N + 1))) =>
                  /\ codecOut[i + N + 1].msg.type = "Eof"
                  /\ codecOut[i + N + 1].state = "ReadingRows"

\* C26: after a result-set header announcing N columns the upstream-facing
\* MySQL codec decodes the next N packets as ColumnDefinition; after the
\* N-th it is in ReadingRows at once under CLIENT_DEPRECATE_EOF, and
\* otherwise stays in ReadingColumns until an EOF packet moves it to
\* ReadingRows.
C26_ColumnDefinitionsCounted ==
    (codec.protocol = "mysql" /\ codec.is_client_side) =>
        \A i \in 1..Len(codecOut) : ColumnsCounted(i, Nat)

\* the same for headers the codec takes for headers (mysql.rs:280: a column
\* count below 1000)
C26_BelowThousand ==
    (codec.protocol = "mysql" /\ codec.is_client_side) =>
        \A i \in 1..Len(codecOut) : ColumnsCounted(i, 1..999)

RECURSIVE TextRow(_, _)
\* buf is the payload of a text-protocol row of n columns: n values, each
\* the NULL marker 0xfb or a length-encoded string, and nothing after them
TextRow(buf, n) ==
    IF n = 0 THEN Len(buf) = 0
    ELSE IF Len(buf) = 0 THEN FALSE
    ELSE IF buf[1] = 251 THEN TextRow(Drop(buf, 1), n - 1)
    ELSE /\ read_lenenc_string(buf).st = "ok"
         /\ TextRow(read_lenenc_string(buf).rest, n - 1)

\* the i-th packet ends the rows of a result set: an ERR packet, an EOF
\* packet without CLIENT_DEPRECATE_EOF, or with it an OK packet (header 0x00
\* or 0xfe) that is not a row of the result set
Terminator(i) ==
    LET p == PayloadOf(i)
    IN  /\ Len(p) > 0
        /\ \/ p[1] = 255
           \/ EofPacket(p) /\ ~Deprecated(i)
           \/ Deprecated(i) /\ p[1] \in { 0, 254 } /\ ~TextRow(p, codecOut[i].column_count)

\* C27: in ReadingRows the upstream-facing MySQL codec returns to Command
\* exactly on a terminating packet (EOF in legacy mode, OK under
\* CLIENT_DEPRECATE_EOF, ERR in either); every other packet is decoded as a
\* ResultRow and leaves the state ReadingRows.
C27_RowsUntilTerminator ==
    (codec.protocol = "mysql" /\ codec.is_client_side) =>
        \A i \in 1..Len(codecOut) :
           StateBefore(i) = "ReadingRows" =>
              IF Terminator(i)
              THEN codecOut[i].st = "ok" => codecOut[i].state = "Command"
              ELSE /\ codecOut[i].st = "ok"
                   /\ codecOut[i].msg.type = "ResultRow"
                   /\ codecOut[i].state = "ReadingRows"

\* the header that opened the result set the i-th packet belongs to: the
\* last packet before it that took the codec from Command to ReadingColumns
HeaderBefore(i) ==
    LET headers == { h \in 1..(i - 1) :
                       StateBefore(h) = "Command" /\ codecOut[h].state = "ReadingColumns" }
    IN  CHOOSE h \in headers : \A g \in headers : g <= h

RECURSIVE ColumnsOf(_, _)
\* column_names and target_cols of an interceptor that started empty and
\* was given the first n column definitions of result set rs
ColumnsOf(rs, n) ==
    IF n = 0 THEN [ column_names |-> << >>, target_cols |-> << >> ]
    ELSE LET before == ColumnsOf(rs, n - 1)
             col == [ table |-> ResultSets[rs].columns[n][1],
                      name |-> ResultSets[rs].columns[n][2] ]
         IN  on_column_definition(col, before.column_names, before.target_cols, rules)

\* the fields of the RowDescription taken last from upstream, if any
LastDescription ==
    LET seen == { n \in 1..Len(upstreamTaken) : upstreamTaken[n].type = "RowDescription" }
    IN  IF seen = {} THEN << >>
        ELSE upstreamTaken[CHOOSE n \in seen : \A m \in seen : m <= n].names

\* the client sent one query on this connection
OneQuery == Cardinality({ n \in 1..Len(clientTaken) : clientTaken[n].type = "Query" }) = 1

SslRequestInLoop ==
    /\ protocol = "postgres"
    /\ pc = "loop"
    /\ Len(clientTaken') = Len(clientTaken) + 1
    /\ clientTaken'[Len(clientTaken')].st = "ok"
    /\ clientTaken'[Len(clientTaken')].type = "SSLRequest"

\* C30: an SSLRequest decoded by the client-side codec inside the
\* forwarding loop is answered with exactly one byte 'N' written to the
\* client and nothing is written upstream for it, then or later; the loop
\* goes on and the codec still awaits the Startup message.
C30_SslRequestInLoopDenied ==
    [][ /\ SslRequestInLoop =>
           /\ clOut' = Append(clOut, Item("byte", "N", << >>, NoMsg, Len(clientTaken')))
           /\ upOut' = upOut
           /\ pc' = "loop"
           /\ is_startup /\ is_startup'
        /\ \A k \in 1..Len(clientTaken) :
              clientTaken[k].type = "SSLRequest" =>
                 /\ \A n \in 1..Len(upOut') : upOut'[n].src # k
                 /\ AnswersTo(k)' = AnswersTo(k) ]_vars

\* two SSLRequests were taken, the second one by the loop, each answered
\* 'N'; the loop runs and the codec is in startup mode
C30_Witness ==
    /\ protocol = "postgres"
    /\ ~tls_acceptor
    /\ pc = "loop"
    /\ Len(clientTaken) = 2
    /\ clientTaken[1].type = "SSLRequest"
    /\ clientTaken[2].type = "SSLRequest"
    /\ AnswersTo(2) = << Item("byte", "N", << >>, NoMsg, 2) >>
    /\ upOut = << >>
    /\ is_startup

(***************************************************************************)
(* Claims about the capability flags of a MySQL connection (SpecConn).     *)
(***************************************************************************)
\* the capability flags the client announced in the first packet it sent
ClientFlags == LE(SubSeq(clientTaken[1].raw, 5, 8))

PgTyped(msg) == msg.type \notin { "Startup", "SSLRequest" }

\* the length field of a typed frame counts itself and the payload, not the
\* type byte
FrameLengthOk(bytes) == Len(bytes) >= 5 /\ U32(SubSeq(bytes, 2, 5)) = 4 + (Len(bytes) - 5)

\* what a masking strategy may leave in a cell: nothing, one byte, five bytes
Replacements == { << >>, << 88 >>, << 88, 88, 88, 88, 88 >> }

\* interceptor.rs:216-338  the rows on_data_row can make of values: a null
\* stays null, a present cell is kept or replaced by new bytes
MaskedRows(values) ==
    { w \in [ 1..Len(values) -> { None } \cup { values[i] : i \in 1..Len(values) }
                                \cup { Some(r) : r \in Replacements } ] :
        \A i \in 1..Len(values) :
           IF IsSome(values[i]) THEN w[i] = values[i] \/ w[i] \in { Some(r) : r \in Replacements }
           ELSE w[i] = None }

RECURSIVE CellBytes(_)
\* the sum over the cells of 4 plus the cell's length, a null counting 0
CellBytes(values) ==
    IF Len(values) = 0 THEN 0
    ELSE 4 + (IF IsSome(Head(values)) THEN Len(Unwrap(Head(values))) ELSE 0)
           + CellBytes(Tail(values))

RECURSIVE CellsWritten(_, _)
\* bytes is the cells of values one after the other, each behind the prefix
\* that holds its size (-1 for a null)
CellsWritten(bytes, values) ==
    IF Len(values) = 0 THEN bytes = << >>
    ELSE /\ Len(bytes) >= 4
         /\ IF IsSome(Head(values))
            THEN LET n == Len(Unwrap(Head(values)))
                 IN  /\ U32(Take(bytes, 4)) = n
                     /\ Len(bytes) >= 4 + n
                     /\ SubSeq(bytes, 5, 4 + n) = Unwrap(Head(values))
                     /\ CellsWritten(Drop(bytes, 4 + n), Tail(values))
            ELSE /\ Take(bytes, 4) = << 255, 255, 255, 255 >>
                 /\ CellsWritten(Drop(bytes, 4), Tail(values))

\* C32: every typed frame the Postgres encoder writes carries the length
\* 4 + payload bytes; a DataRow re-encoded after its present cells were
\* replaced carries 4 + 2 + the sum of (4 + cell length), the number of its
\* cells as column count and, before each cell, the size the cell has now.
C32_EncodedLengths ==
    codec.protocol = "postgres" =>
        /\ \A i \in 1..Len(codecEcho) :
              PgTyped(codecOut[i].msg) => FrameLengthOk(codecEcho[i].bytes)
        /\ (Len(codecFed.sent) = 1 /\ PgTyped(codecFed.sent[1])) => FrameLengthOk(codecFed.bytes)
        /\ \A i \in 1..Len(codecOut) :
              (codecOut[i].st = "ok" /\ codecOut[i].msg.type = "DataRow") =>
                 \A w \in MaskedRows(codecOut[i].msg.parts) :
                    \E bytes \in { PostgresCodec_encode([ codecOut[i].msg EXCEPT !.parts = w ]) } :
                       /\ FrameLengthOk(bytes)
                       /\ U32(SubSeq(bytes, 2, 5)) = 4 + 2 + CellBytes(w)
                       /\ U16(SubSeq(bytes, 6, 7)) = Len(w)
                       /\ CellsWritten(Drop(bytes, 7), w)

\* a DataRow with a present cell and a null was decoded and written again
C32_Witness ==
    /\ codec.protocol = "postgres"
    /\ \E i \in 1..Len(codecEcho) :
          /\ codecOut[i].msg.type = "DataRow"
          /\ \E c \in 1..Len(codecOut[i].msg.parts) : IsSome(codecOut[i].msg.parts[c])
          /\ \E c \in 1..Len(codecOut[i].msg.parts) : ~IsSome(codecOut[i].msg.parts[c])
          /\ \E w \in MaskedRows(codecOut[i].msg.parts) :
                CellBytes(w) # CellBytes(codecOut[i].msg.parts)

(***************************************************************************)
(* Claims about the masking engine (SpecMask), concluded.                  *)
(***************************************************************************)
\* C33: when a row is processed with masking enabled, a present cell of a
\* column whose entry in the column map names a strategy other than json is
\* replaced by that strategy's output for the cell, whatever the cell holds;
\* no cell of a column with an entry is treated by a content heuristic.
C33_ExplicitRuleOverridesContent ==
    (RowCall /\ lastCall.masking_enabled) =>
        \A i \in 1..Len(lastCall.msg) :
           \E explicit \in { explicit_strategy(lastCall.target_cols, i - 1) } :
              (IsSome(lastCall.msg[i]) /\ IsSome(explicit)) =>
                 /\ explicit # Some("json") =>
                       /\ lastCall.results[i].changed
                       /\ lastCall.results[i].strategy = Unwrap(explicit)
                       /\ lastCall.results[i].value =
                             Some(TextBytes(generate_fake_data(Unwrap(explicit),
                                                               HashBytes(Unwrap(lastCall.msg[i])))))
                 /\ lastCall.results[i].changed => lastCall.results[i].strategy = Unwrap(explicit)

\* an SSN, a JSON document and bytes that are not UTF-8, each in a column
\* with an explicit rule that is not json, in rows of both interceptors
C33_Witness ==
    /\ RowCall
    /\ lastCall.masking_enabled
    /\ \E i \in 1..Len(lastCall.msg) :
          /\ IsSome(lastCall.msg[i])
          /\ Unwrap(lastCall.msg[i]).k = "json"
          /\ explicit_strategy(lastCall.target_cols, i - 1) \in { Some("email"), Some("hash") }
    /\ \E i \in 1..Len(lastCall.msg) :
          /\ lastCall.msg[i] \in { Some(TextBytes(SsnText)), Some(BinBytes(<< "0xfe" >>)) }
          /\ explicit_strategy(lastCall.target_cols, i - 1) \in { Some("email"), Some("hash") }

(***************************************************************************)
(* Claims about the scanner (SpecScan).                                    *)
(***************************************************************************)
\* the order of the kinds
ScanOrder == << "Email", "CreditCard", "Ssn", "IpAddress", "DateOfBirth", "Phone", "Passport" >>

\* the pattern of a kind
RegexOf(kind) ==
    CASE kind = "Email" -> email_regex
      [] kind = "CreditCard" -> cc_regex
      [] kind = "Ssn" -> ssn_regex
      [] kind = "IpAddress" -> ip_regex
      [] kind = "DateOfBirth" -> dob_regex
      [] kind = "Phone" -> phone_regex
      [] kind = "Passport" -> passport_regex

\* the positions in ScanOrder of the patterns text matches
MatchingKinds(text) == { n \in 1..Len(ScanOrder) : is_match(RegexOf(ScanOrder[n]), text) }

\* the kind that comes earliest among the patterns text matches
EarliestKind(text) ==
    IF MatchingKinds(text) = {} THEN None
    ELSE Some(ScanOrder[CHOOSE n \in MatchingKinds(text) : \A m \in MatchingKinds(text) : n <= m])

\* C34: for every text cell of a column without a rule, scan returns
\* the kind that comes earliest in the order email, credit card, SSN, IP
\* address, date of birth, phone, passport among the patterns the text
\* matches, and no classification when it matches none; the cell is masked
\* with that kind's strategy, or left alone.
C34_FirstPatternInOrder ==
    RowCall =>
        \A i \in 1..Len(lastCall.msg) :
           ( /\ IsSome(lastCall.msg[i])
             /\ Unwrap(lastCall.msg[i]).k = "text"
             /\ IsNone(explicit_strategy(lastCall.target_cols, i - 1)) ) =>
              \E text \in { Unwrap(lastCall.msg[i]).s } :
                 /\ scan(text) = EarliestKind(text)
                 /\ lastCall.results[i].changed <=> IsSome(EarliestKind(text))
                 /\ IsSome(EarliestKind(text)) =>
                       lastCall.results[i].strategy =
                          pii_type_to_strategy(Unwrap(EarliestKind(text)))

\* a row with a date of birth and a text that matches no pattern
C34_Witness ==
    /\ RowCall
    /\ \E i, j \in 1..Len(lastCall.msg) :
          /\ IsSome(lastCall.msg[i])
          /\ IsSome(lastCall.msg[j])
          /\ Unwrap(lastCall.msg[j]).k = "text"
          /\ IsNone(explicit_strategy(lastCall.target_cols, j - 1))
          /\ scan(Unwrap(lastCall.msg[i]).s) = Some("DateOfBirth")
          /\ lastCall.results[i].strategy = "dob"
          /\ MatchingKinds(Unwrap(lastCall.msg[j]).s) = {}
          /\ ~lastCall.results[j].changed

RECURSIVE OnlyClassifiedLeavesChanged(_, _)
\* out is the document doc with every string leaf the scanner classifies
\* replaced by the fake for its kind, and nothing else changed: same node
\* types, same keys, same number of children in the same order
OnlyClassifiedLeavesChanged(doc, out) ==
    /\ out.t = doc.t
    /\ out.keys = doc.keys
    /\ Len(out.v) = Len(doc.v)
    /\ IF doc.t = "str" /\ IsSome(scan(doc.s))
       THEN out.s = generate_fake_data(pii_type_to_strategy(Unwrap(scan(doc.s))), HashStr(doc.s))
       ELSE out.s = doc.s
    /\ \A n \in 1..Len(doc.v) : OnlyClassifiedLeavesChanged(doc.v[n], out.v[n])

RECURSIVE Depth(_)
\* the nesting depth at which a classified string leaf of doc sits, or 0
Depth(doc) ==
    IF doc.t = "str" THEN (IF IsSome(scan(doc.s)) THEN 1 ELSE 0)
    ELSE IF \E n \in 1..Len(doc.v) : Depth(doc.v[n]) > 0
    THEN 1 + Depth(doc.v[CHOOSE n \in 1..Len(doc.v) :
                            \A m \in 1..Len(doc.v) : Depth(doc.v[n]) >= Depth(doc.v[m])])
    ELSE 0

\* JSON masking applies to cell i of the last row: the column has the rule
\* json, or the row is a Postgres row and the column has no rule
JsonMasked(i) ==
    /\ IsSome(lastCall.msg[i])
    /\ Unwrap(lastCall.msg[i]).k = "json"
    /\ \/ explicit_strategy(lastCall.target_cols, i - 1) = Some("json")
       \/ /\ lastCall.op = "on_data_row"
          /\ IsNone(explicit_strategy(lastCall.target_cols, i - 1))

\* C35: the document a row handler writes back for a cell it masks as JSON
\* is the document of the cell with every string leaf the scanner
\* classifies replaced, at any depth, and with the same shape, keys,
\* numbers, booleans, nulls and unclassified strings.
C35_OnlyClassifiedLeavesChange ==
    RowCall =>
        \A i \in 1..Len(lastCall.msg) :
           JsonMasked(i) =>
              /\ IsSome(lastCall.results[i].value)
              /\ Unwrap(lastCall.results[i].value).k = "json"
              /\ OnlyClassifiedLeavesChanged(Unwrap(lastCall.msg[i]).doc,
                                             Unwrap(lastCall.results[i].value).doc)

\* a document with classified strings three levels down, beside a number, a
\* boolean, a null and an unclassified string, was masked
C35_Witness ==
    /\ RowCall
    /\ \E i \in 1..Len(lastCall.msg) :
          /\ JsonMasked(i)
          /\ Depth(Unwrap(lastCall.msg[i]).doc) >= 4
          /\ lastCall.results[i].changed
          /\ Unwrap(lastCall.results[i].value).doc # Unwrap(lastCall.msg[i]).doc

(***************************************************************************)
(* Claims about the length-encoded integers (SpecLenenc).                  *)
(***************************************************************************)
\* the number of bytes of the form the first byte announces
Announced(first) ==
    CASE first = 252 -> 3
      [] first = 253 -> 4
      [] first = 254 -> 9
      [] OTHER -> 1

\* the number of bytes v cannot be written in less: marker and value bytes
MinimalSize(v) ==
    IF v < 251 THEN 1 ELSE IF v < 65536 THEN 3 ELSE IF v < 16777216 THEN 4 ELSE 9

\* C37: write_lenenc_int writes v in the minimal form (one byte below 251,
\* 0xfc and 2 bytes below 2^16, 0xfd and 3 bytes below 2^24, 0xfe and 8
\* bytes otherwise), read_lenenc_int on those bytes returns v and the number
\* of bytes written, and read_lenenc_int fails on a first byte 0xff and on a
\* buffer shorter than the form its first byte announces.
C37_LenencRoundTrip ==
    /\ (Len(codecFed.sent) = 1 /\ codecQueue = << >>) =>
          /\ Len(codecFed.bytes) = MinimalSize(codecFed.sent[1])
          /\ codecFed.bytes[1] = (CASE MinimalSize(codecFed.sent[1]) = 1 -> codecFed.sent[1]
                                    [] MinimalSize(codecFed.sent[1]) = 3 -> 252
                                    [] MinimalSize(codecFed.sent[1]) = 4 -> 253
                                    [] OTHER -> 254)
          /\ \A i \in 1..Len(codecOut) :
                /\ codecOut[i].st = "ok"
                /\ codecOut[i].v = codecFed.sent[1]
                /\ codecOut[i].consumed = Len(codecFed.bytes)
    /\ \A i \in 1..Len(codecOut) :
          (Len(codecOut[i].buf) = 0
             \/ codecOut[i].buf[1] = 255
             \/ Len(codecOut[i].buf) < Announced(codecOut[i].buf[1])) <=> codecOut[i].st = "err"

\* a value of the 8-byte form was written before more payload and read back
C37_Witness ==
    /\ Len(codecFed.sent) = 1
    /\ codecFed.sent[1] >= 16777216
    /\ Len(codecOut) = 1
    /\ codecOut[1].st = "ok"
    /\ Len(codecOut[1].buf) > codecOut[1].consumed

\* read_lenenc_int was given the marker 0xff with eight bytes behind it
C37_Rejected ==
    /\ Len(codecOut) = 1
    /\ codecOut[1].buf = << 255, 1, 2, 3, 4, 5, 6, 7, 8 >>
    /\ codecOut[1].st = "err"

(***************************************************************************)
(* Claims about rule changes during a result set (SpecMask).               *)
(***************************************************************************)
\* C38: a Postgres row that follows a RowDescription, with or without a
\* management request in between, is masked with the column map computed
\* from the rule list as it was when the RowDescription was processed, and
\* with masking_enabled as it is when the row is processed; a
\* RowDescription computes its map from the rule list as it is then.
C38_RulesOfDescriptionTime ==
    [][ /\ (lastCall.op = "on_row_description" /\ lastCall'.op = "on_data_row") =>
              \E map \in { on_row_description(lastCall.fields, lastCall.rules) } :
                 /\ lastCall'.target_cols = map
                 /\ \A i \in 1..Len(lastCall'.msg) :
                       lastCall'.results[i].value =
                          IF masking_enabled /\ IsSome(lastCall'.msg[i])
                          THEN Some(MaskDataCell(Unwrap(lastCall'.msg[i]),
                                                 explicit_strategy(map, i - 1)).val)
                          ELSE lastCall'.msg[i]
        /\ (calls' = calls + 1 /\ lastCall'.op = "on_row_description") =>
              target_cols' = on_row_description(lastCall'.fields, rules)
      ]_vars

\* a row was masked by a rule that had been deleted after the RowDescription
C38_Witness ==
    /\ lastCall.op = "on_data_row"
    /\ edits = 1
    /\ lastCall.masking_enabled
    /\ \A n \in 1..Len(lastCall.rules) : lastCall.rules[n].column # "email"
    /\ \E i \in 1..Len(lastCall.msg) :
          /\ lastCall.msg[i] = Some(TextBytes(<< "b", "o", "b" >>))
          /\ explicit_strategy(lastCall.target_cols, i - 1) = Some("email")
          /\ lastCall.results[i].changed

(***************************************************************************)
(* Claims about the rows of a MySQL result set (SpecCodec), concluded.     *)
(***************************************************************************)
\* the i-th packet is a text row of the current result set whose first
\* value is the empty string, received under CLIENT_DEPRECATE_EOF
EmptyFirstCell(i) ==
    /\ StateBefore(i) = "ReadingRows"
    /\ Deprecated(i)
    /\ Len(PayloadOf(i)) > 0
    /\ PayloadOf(i)[1] = 0
    /\ TextRow(PayloadOf(i), codecOut[i - 1].column_count)

\* C39: under CLIENT_DEPRECATE_EOF a text row whose first cell is the empty
\* string is decoded in ReadingRows as a ResultRow with as many values as
\* the recorded column count, leaves the codec in ReadingRows, and is
\* written back byte for byte; it does not end the result set.
C39_EmptyFirstCellIsRow ==
    (codec.protocol = "mysql" /\ codec.is_client_side) =>
        \A i \in 2..Len(codecOut) :
           EmptyFirstCell(i) =>
              /\ codecOut[i].st = "ok"
              /\ codecOut[i].msg.type = "ResultRow"
              /\ Len(codecOut[i].msg.values) = codecOut[i - 1].column_count
              /\ codecOut[i].state = "ReadingRows"
              /\ i <= Len(codecEcho) => codecEcho[i].bytes = codecOut[i].raw

(***************************************************************************)
(* Claims about the tasks on the shared locks (SpecLocks, SpecLocksLive).  *)
(***************************************************************************)
\* record_masking calls completed so far that select counter c
CallsFor(c) ==
    SumOver([ n \in MaskNames |-> IF CounterOf(n) = c THEN masksMade[n] ELSE 0 ], MaskNames)

\* C36: whatever the interleaving of the connection tasks, every counter of
\* MaskingStats holds the number of record_masking calls completed with a
\* strategy name that selects it ('other' for a name outside the known
\* set), and total() is the number of calls completed: no increment is lost.
C36_NoIncrementLost ==
    /\ \A c \in StatNames : stats[c] = CallsFor(c)
    /\ total(stats) = SumOver(masksMade, MaskNames)

\* one call with an unknown name is counted, a second task is between the
\* read and the write of a counter, and a third call waits for the guard
C36_Witness ==
    /\ masksMade["bogus"] = 1
    /\ stats["other"] = 1
    /\ \E t \in ConnTasks : \E u \in ConnTasks \ { t } :
          /\ lock_held["stats"].writer = t
          /\ task[t].prog[task[t].ip].k = "store"
          /\ \E i \in 1..Len(lock_queue["stats"]) : lock_queue["stats"][i].t = u

\* task t waits for lock l
WaitingOn(t, l) == \E i \in 1..Len(lock_queue[l]) : lock_queue[l][i].t = t

\* the only guard held together with another guard or request is the write
\* guard on health_status of update_health_status, with the read of config
NestedOnlyInHealth ==
    \A t \in Tasks : \A l \in LockNames :
       Holds(t, l) =>
          /\ ~WaitingOn(t, l)
          /\ \A l2 \in LockNames \ { l } :
                (Holds(t, l2) \/ WaitingOn(t, l2)) =>
                   /\ t = HealthTask
                   /\ task[t].op = "update_health_status"
                   /\ \/ /\ l = "health_status"
                         /\ lock_held[l].writer = t
                         /\ l2 = "config"
                         /\ lock_held[l2].writer # t
                      \/ /\ l = "config"
                         /\ t \in lock_held[l].readers
                         /\ l2 = "health_status"
                         /\ lock_held[l2].writer = t

\* no task waits for a lock for ever
EveryRequestGranted == \A t \in Tasks : []<>~Waiting(t)

\* C40: no task holds config while it requests or holds health_status,
\* stats or logs, except update_health_status, which took the write guard on
\* health_status first and then reads config; a task holding a guard never
\* requests the same lock again; and every lock request is eventually
\* granted: no task waits for ever.
C40_NoDeadlock ==
    /\ []NestedOnlyInHealth
    /\ EveryRequestGranted

\* the health updater holds health_status and waits for config behind the
\* write guard of update_config, with a connection task waiting as well
C40_Witness ==
    /\ lock_held["health_status"].writer = HealthTask
    /\ WaitingOn(HealthTask, "config")
    /\ lock_held["config"].writer = ApiTask
    /\ \E t \in ConnTasks : WaitingOn(t, "config")


====
